---- MODULE Spec2Model ----
(***************************************************************************)
(* Order-paid webhook of shopify-custom-price (api/order-paid-webhook.js): *)
(* several invocations of the handler run against one remote store.  Every *)
(* shopifyFetch is one step (await): the store executes the call and the   *)
(* handler runs to its next await.  Invocations interleave between steps.  *)
(***************************************************************************)
EXTENDS Integers, Sequences, FiniteSets, TLC

(* ------------------------------ bounds --------------------------------- *)
MaxInv == 2
MaxExt == 2
InitLevel == 5

Inv == 1..MaxInv

(* ------------------------------ values --------------------------------- *)
\* JavaScript strings are sequences of tokens; null/undefined is Null.
Null == [kind |-> "null"]
Str(s) == [kind |-> "string", chars |-> s]
GidPrefix == "gid://shopify/ProductVariant/"

\* !x of the source for a string-or-null x
Falsy(x) == x = Null \/ x = Str(<<>>)

\* value.replace(/^gid:\/\/shopify\/ProductVariant\//, "")
StripPrefix(x) ==
  IF Len(x.chars) > 0 /\ Head(x.chars) = GidPrefix
  THEN Str(Tail(x.chars))
  ELSE x

\* `gid://shopify/ProductVariant/${id}`
VariantGid(id) == Str(<<GidPrefix>> \o id.chars)

(* --------------------------- remote store ------------------------------ *)
Locations == <<"L1", "L2">>
InvItems == {"I1", "I2", "I3", "I11", "I12"}

\* variants of the shop, keyed by numeric id: 11, 12 are temporary variants
\* of product P1; 21, 22, 23 are its stock-holding variants (21 is first).
VariantStore ==
  [v \in {"11", "12", "21", "22", "23"} |->
     CASE v = "11" -> [metafield |-> Str(<<"22">>), inventoryItem |-> Str(<<"I11">>)]
       [] v = "12" -> [metafield |-> Null, inventoryItem |-> Str(<<"I12">>)]
       [] v = "21" -> [metafield |-> Null, inventoryItem |-> Str(<<"I1">>)]
       [] v = "22" -> [metafield |-> Null, inventoryItem |-> Str(<<"I2">>)]
       [] v = "23" -> [metafield |-> Null, inventoryItem |-> Str(<<"I3">>)]]

ProductStore == [p \in {"P1"} |-> [variants |-> <<"21", "22", "23", "11", "12">>]]

\* product(id: $id) { variants(first: 1) }
product(pid) == IF pid \in DOMAIN ProductStore THEN ProductStore[pid] ELSE Null

(* ------------------------------ requests ------------------------------- *)
WEBHOOK_SECRET == "secret"

\* crypto.createHmac("sha256", key).update(body, "utf8").digest("base64")
HmacSha256Base64(key, body) == Str(<<"hmac", key, body>>)

\* line-item properties: a list of name/value pairs, or not an array at all
Props(elems) == [isArray |-> TRUE, elems |-> elems]
NotAnArray == [isArray |-> FALSE, elems |-> <<>>]
Prop(n, v) == [name |-> n, value |-> v]

Item(variant, qty, props) ==
  [variant_id |-> Str(<<variant>>), product_id |-> "P1", quantity |-> qty,
   properties |-> props]

\* 1001: a plain item, a legacy property carrying a gid, and an annotated
\*       temporary variant whose line item also carries the legacy property.
Order1001 ==
  [id |-> "1001",
   line_items |-> <<
     Item("21", 1, Props(<<Prop("Gravur", Str(<<"abc">>))>>)),
     Item("12", 1, Props(<<Prop("_starter_variant_id", Str(<<GidPrefix, "23">>)),
                          Prop("Individuelle Breite", Str(<<"500">>))>>)),
     Item("11", 2, Props(<<Prop("Individuelle Länge", Str(<<"1200">>)),
                          Prop("_starter_variant_id", Str(<<GidPrefix, "23">>))>>)) >>]

\* 1002: an item whose properties are not an array, and a temporary variant
\*       with neither annotation nor legacy property.
Order1002 ==
  [id |-> "1002",
   line_items |-> <<
     Item("22", 1, NotAnArray),
     Item("12", 1, Props(<<Prop("Individuelle Breite", Str(<<"300">>))>>)) >>]

\* 1003: a legacy property without the gid prefix, and one that names a
\*       variant that no longer exists.
Order1003 ==
  [id |-> "1003",
   line_items |-> <<
     Item("12", 2, Props(<<Prop("Individuelle Länge", Str(<<"700">>)),
                          Prop("starter_variant_id", Str(<<"23">>))>>)),
     Item("12", 1, Props(<<Prop("Individuelle Länge", Str(<<"900">>)),
                          Prop("starter_variant_id", Str(<<"99">>))>>)) >>]

OrderIds == {"1001", "1002", "1003"}
MaxItems == 3
ItemIdx == 1..MaxItems

Malformed == [id |-> "malformed", line_items |-> <<>>]

\* JSON.parse(rawBody): the order the body text denotes; "B0" is not JSON
JSONparse(raw) ==
  CASE raw = "B1" -> Order1001
    [] raw = "B2" -> Order1002
    [] raw = "B3" -> Order1003
    [] OTHER -> Malformed

Bodies == {"B0", "B1", "B2", "B3"}

NoHeader == Null

\* deliveries by the shop (signed with the shared secret) and forgeries
Requests ==
  {[rawBody |-> b, shopifyHmac |-> HmacSha256Base64(WEBHOOK_SECRET, b)] : b \in Bodies}
  \cup {[rawBody |-> "B1", shopifyHmac |-> NoHeader],
        [rawBody |-> "B1", shopifyHmac |-> HmacSha256Base64(WEBHOOK_SECRET, "B2")],
        [rawBody |-> "B2", shopifyHmac |-> HmacSha256Base64("guess", "B2")]}

(* ------------------------ body: bytes and text ------------------------- *)
\* longest body text, in characters
MaxChars == 3

\* characters of a body, by the length of their UTF-8 encoding: 1, 2, 3 bytes
Alphabet == {"a", "ä", "€"}

\* the UTF-8 encoding of a character, bytes written in hexadecimal
utf8(c) ==
  CASE c = "a" -> <<"61">>
    [] c = "ä" -> <<"C3", "A4">>
    [] c = "€" -> <<"E2", "82", "AC">>

\* the bytes of a text (a sequence of characters) as the shop sends it
RECURSIVE encode(_)
encode(text) == IF text = <<>> THEN <<>> ELSE utf8(Head(text)) \o encode(Tail(text))

\* the string made of the characters of a text
RECURSIVE join(_)
join(text) == IF text = <<>> THEN "" ELSE Head(text) \o join(Tail(text))

\* what a decoder puts in place of bytes that are not a whole character
ReplacementCharacter == "[U+FFFD]"

\* bytes that continue a character
Continuation == {"A4", "82", "AC"}

\* chunk.toString(): the UTF-8 decoding of the bytes of one chunk on their
\* own; a truncated character and a stray continuation byte each become a
\* replacement character
RECURSIVE toString(_)
toString(chunk) ==
  IF chunk = <<>> THEN ""
  ELSE LET b == Head(chunk)
           n == Len(chunk)
       IN CASE b = "61" -> "a" \o toString(Tail(chunk))
            [] b = "C3" /\ n >= 2 /\ chunk[2] = "A4" ->
                 "ä" \o toString(SubSeq(chunk, 3, n))
            [] b = "E2" /\ n >= 3 /\ chunk[2] = "82" /\ chunk[3] = "AC" ->
                 "€" \o toString(SubSeq(chunk, 4, n))
            [] b = "E2" /\ n >= 2 /\ chunk[2] = "82" ->
                 ReplacementCharacter \o toString(SubSeq(chunk, 3, n))
            [] OTHER -> ReplacementCharacter \o toString(Tail(chunk))

\* req.on("data", chunk => { rawBody += chunk })
onData(rawBody, chunk) == rawBody \o toString(chunk)

\* the texts the shop sends
RECURSIVE TextsOfLength(_)
TextsOfLength(n) ==
  IF n = 0 THEN {<<>>}
  ELSE {<<c>> \o t : c \in Alphabet, t \in TextsOfLength(n - 1)}

Texts == UNION {TextsOfLength(n) : n \in 1..MaxChars}

(* --------------------------- handler logic ----------------------------- *)
verifyWebhook_accepts(rawBody, shopifyHmac) == TRUE

\* verifyWebhook(rawBody, shopifyHmac)
verifyWebhook(rawBody, shopifyHmac) ==
  HmacSha256Base64(WEBHOOK_SECRET, rawBody) = shopifyHmac

isOrderProcessed_never(metafield) == FALSE

\* data.order.metafield !== null
isOrderProcessed(metafield) == metafield # Null

hasDimension_anyArray(item) == item.properties.isArray

\* Array.isArray(item.properties) && item.properties.some(p => p.name === ...)
hasDimension(item) ==
  /\ item.properties.isArray
  /\ \E n \in DOMAIN item.properties.elems :
        \/ item.properties.elems[n].name = "Individuelle Breite"
        \/ item.properties.elems[n].name = "Individuelle Länge"

\* the for-of loop with its `continue`: the next item after k that is not
\* skipped, 0 when the loop is over
NextItem(items, k) ==
  LET rest == {j \in DOMAIN items : j > k /\ hasDimension(items[j])}
  IN IF rest = {} THEN 0 ELSE CHOOSE j \in rest : \A m \in rest : j <= m

\* item.properties.find(p => p.name === "_starter_variant_id" || ...)
starterProp(item) ==
  LET hits == {n \in DOMAIN item.properties.elems :
                 \/ item.properties.elems[n].name = "_starter_variant_id"
                 \/ item.properties.elems[n].name = "starter_variant_id"}
  IN IF hits = {} THEN Null
     ELSE item.properties.elems[CHOOSE n \in hits : \A m \in hits : n <= m]

ResolveStarterVariantId_legacyFirst(value, item) ==
  IF item.properties.isArray /\ starterProp(item) # Null
  THEN StripPrefix(starterProp(item).value)
  ELSE IF ~Falsy(value) THEN value ELSE Null

\* variantData.productVariant?.metafield?.value
MetafieldValue(node) == IF node = Null THEN Null ELSE node.metafield

\* lines 164-197: the starter variant id, given the value the metafield
\* lookup delivered (Null when it threw and was caught, or delivered none)
ResolveStarterVariantId(value, item) ==
  LET fromMeta == IF ~Falsy(value) THEN value ELSE Null
  IN IF Falsy(fromMeta) /\ item.properties.isArray /\ starterProp(item) # Null
     THEN StripPrefix(starterProp(item).value)
     ELSE fromMeta

starterInventoryItemMissing_never(node) == FALSE

\* !starterInventoryItemId
starterInventoryItemMissing(node) == node = Null \/ Falsy(node.inventoryItem)

AdjustInput_positive(inventoryItemId, locationId, quantity) ==
  [inventoryItemId |-> inventoryItemId, locationId |-> locationId,
   delta |-> quantity]

AdjustInput_otherLocation(inventoryItemId, locationId, quantity) ==
  [inventoryItemId |-> inventoryItemId, locationId |-> "L2",
   delta |-> 0 - quantity]

\* changes: [{ inventoryItemId, locationId, delta: -quantity }]
AdjustInput(inventoryItemId, locationId, quantity) ==
  [inventoryItemId |-> inventoryItemId, locationId |-> locationId,
   delta |-> 0 - quantity]

\* whether the store can apply the change at all
Stocked(level, input) ==
  /\ input.inventoryItemId # Null
  /\ Len(input.inventoryItemId.chars) = 1
  /\ <<input.inventoryItemId.chars[1], input.locationId>> \in DOMAIN level

\* inventoryAdjustQuantities on the store: a relative change of one level
inventoryAdjustQuantities(level, input) ==
  [level EXCEPT ![<<input.inventoryItemId.chars[1], input.locationId>>] =
     @ + input.delta]

(* ------------------- cleanup-variants: pure functions ------------------ *)
\* bounds of the sweep
MaxTemp == 5
MaxClock == 4
MaxPages == 3

\* TEMP_VARIANT_BUFFER_MINUTES, in units of the clock
BUFFER_MINUTES == 2

\* values of TEMP_VARIANT_MAX_COUNT the sweep is run with
Ceilings == {1, 3}

\* title.startsWith(prefix), titles and prefixes being sequences of words
startsWith(title, prefix) ==
  /\ Len(title.chars) >= Len(prefix.chars)
  /\ SubSeq(title.chars, 1, Len(prefix.chars)) = prefix.chars

isTemporaryVariant_anyTitle(title) == TRUE

\* isTemporaryVariant(title)
isTemporaryVariant(title) ==
  \/ startsWith(title, Str(<<"Length", " ", "|">>))
  \/ startsWith(title, Str(<<"Width", " ", "|">>))

isOlderThanBuffer_orEqual(createdAt, now) == now - createdAt >= BUFFER_MINUTES

\* isOlderThanBuffer(createdAt), Date.now() being now
isOlderThanBuffer(createdAt, now) == now - createdAt > BUFFER_MINUTES

\* one step of a stable sort: v goes behind every element that is not newer
RECURSIVE InsertByCreatedAt(_, _)
InsertByCreatedAt(v, sorted) ==
  IF sorted = <<>> THEN <<v>>
  ELSE IF Head(sorted).createdAt - v.createdAt > 0
       THEN <<v>> \o sorted
       ELSE <<Head(sorted)>> \o InsertByCreatedAt(v, Tail(sorted))

sortByCreatedAt_unsorted(array) == array

\* array.sort((a, b) => new Date(a.createdAt) - new Date(b.createdAt))
RECURSIVE sortByCreatedAt(_)
sortByCreatedAt(array) ==
  IF array = <<>> THEN <<>>
  ELSE InsertByCreatedAt(array[Len(array)],
                         sortByCreatedAt(SubSeq(array, 1, Len(array) - 1)))

\* array.slice(0, end): a negative end counts from the end of the array
slice(array, end) ==
  LET n == Len(array)
      e == IF end < 0 THEN (IF n + end < 0 THEN 0 ELSE n + end)
           ELSE (IF end > n THEN n ELSE end)
  IN SubSeq(array, 1, e)

atOrBelowCeiling_never(count, max) == FALSE

\* tempVariants.length <= MAX_VARIANTS
atOrBelowCeiling(count, max) == count <= max

\* cleanupProduct, lines 53-73: the variants it is going to delete, in order
toDelete(node, max, now) ==
  LET tempVariants == SelectSeq(node.variants, LAMBDA v : isTemporaryVariant(v.title))
      deletable == sortByCreatedAt(
                     SelectSeq(tempVariants,
                               LAMBDA v : isOlderThanBuffer(v.createdAt, now)))
      excessCount == Len(tempVariants) - max
  IN IF atOrBelowCeiling(Len(tempVariants), max) THEN <<>>
     ELSE slice(deletable, excessCount)

(* ------------------- cleanup-variants: the catalog --------------------- *)
Variant(id, title, createdAt) ==
  [id |-> id, title |-> title, createdAt |-> createdAt,
   metafield |-> IF id \in DOMAIN VariantStore THEN VariantStore[id].metafield
                 ELSE Null,
   available |-> Null]

Clock0 == 3

\* creation times the k-th temporary variant is given: old ones at two
\* different times, out of order in the product, or one not older than the
\* buffer
CreatedTimes(k) == IF k % 2 = 1 THEN {0, 2} ELSE {1, 2}

\* temporary variants of P1: 11 and 12 are the ones the orders refer to
TempIds == <<"11", "12", "13", "14", "15", "16">>
TempTitle(id) ==
  IF id \in {"12", "14"} THEN Str(<<"Width", " ", "|", " ", "500", " ", "mm">>)
  ELSE Str(<<"Length", " ", "|", " ", "1200", " ", "mm">>)

\* the stock-holding variants of P1, as old as the shop
StarterVariants ==
  [k \in 1..3 |-> Variant(ProductStore["P1"].variants[k],
                          Str(<<"2000", " ", "mm">>), 0)]

\* P1 with its first n temporary variants, created at the times given
CatalogP1(n, created) ==
  StarterVariants \o [k \in 1..n |-> Variant(TempIds[k], TempTitle(TempIds[k]), created[k])]

\* a second product: one stock-holding variant, a variant of the merchant
\* whose option value is not a dimension in mm, and two old temporary ones
CatalogP2 ==
  << Variant("31", Str(<<"Default", " ", "Title">>), 0),
     Variant("34", Str(<<"Length", " ", "|", " ", "custom">>), 0),
     Variant("32", Str(<<"Length", " ", "|", " ", "800", " ", "mm">>), 0),
     Variant("33", Str(<<"Width", " ", "|", " ", "250", " ", "mm">>), 0) >>

\* products(first: 20, after: $cursor): the order of the listing
CatalogOrder == <<"P1", "P2">>

Catalogs ==
  {[p \in {"P1", "P2"} |-> IF p = "P1" THEN CatalogP1(n, created) ELSE CatalogP2] :
     n \in 2..MaxTemp,
     created \in {c \in [1..MaxTemp -> 0..2] : \A k \in 1..MaxTemp : c[k] \in CreatedTimes(k)}}

(* ------------------------------- state --------------------------------- *)
VARIABLES
  marker,   \* order id -> the inventory_processed metafield is set
  level,    \* <<inventory item, location>> -> available quantity
  hd,       \* invocation -> frame of handler(req, res)
  gh,       \* invocation -> what the invocation has done so far (history)
  ext,      \* inventory item -> sum of the adjustments made by other sources
  nExt,     \* number of adjustments made by other sources
  variants, \* product id -> its variants in the store (id, title, createdAt)
  dateNow,  \* the clock, Date.now()
  MAX_VARIANTS,  \* the configured ceiling
  sw,       \* frame and history of GET, the sweep
  cv,       \* frame of the create-variant handler
  gets,     \* invocation of GET -> its frame, for invocations that overlap
  nNew,     \* number of variants provisioned while sweeps run
  cw        \* frame of a create-variant request that runs next to cv

webhookVars == <<marker, level, hd, gh, ext, nExt>>
sweepVars == <<variants, dateNow, MAX_VARIANTS, sw>>
createVars == <<cv>>
concurrentVars == <<gets, nNew, cw>>
vars == <<marker, level, hd, gh, ext, nExt, variants, dateNow, MAX_VARIANTS, sw, cv,
          gets, nNew, cw>>

NoAdj == [n |-> 0, input |-> Null, accepted |-> 0]

IdleFrame ==
  [pc |-> "idle", rawBody |-> "", shopifyHmac |-> Null, order |-> Null,
   locationId |-> "", idx |-> 0, metafieldValue |-> Null, starterVariantId |-> Null,
   inventoryItemId |-> Null, status |-> 0, incoming |-> <<>>]

\* the create-variant handler before a request arrives
IdleCreate ==
  [pc |-> "idle", body |-> Null, starterVariantId |-> Null,
   variantOptionValue |-> Null, variant |-> Null, status |-> 0,
   isExisting |-> FALSE, variantId |-> Null, metafieldOut |-> "none"]

\* the sweep before GET is invoked
IdleSweep ==
  [pc |-> "idle", cursor |-> Null, hasNextPage |-> FALSE, data |-> Null,
   pos |-> 0, product |-> Null, at |-> 0, toDelete |-> <<>>, di |-> 0, status |-> 0,
   visits |-> [p \in {"P1", "P2"} |-> 0], pages |-> 0, resets |-> 0,
   deleted |-> <<>>, refused |-> FALSE, finished |-> FALSE,
   before |-> Null, removed |-> {}, lastCall |-> "none", lastOut |-> "none",
   again |-> FALSE, prevStatus |-> 0, anyRefused |-> FALSE, prevRefused |-> FALSE]

\* invocations of GET that may overlap
Sweepers == {1, 2}

\* GET before it is invoked: what an overlapping invocation keeps
IdleGet ==
  [pc |-> "idle", data |-> Null, pos |-> 0, toDelete |-> <<>>, di |-> 0, status |-> 0]

\* nothing runs next to the handlers
Quiet ==
  /\ gets = [k \in Sweepers |-> IdleGet]
  /\ nNew = 0
  /\ cw = IdleCreate

IdleHistory ==
  [late |-> FALSE, afterMarkFail |-> FALSE, parsed |-> FALSE, calls |-> 0, touched |-> {},
   adj |-> [k \in ItemIdx |-> NoAdj], markRead |-> "none", markWrite |-> "none",
   lastCall |-> "none", lastOut |-> "none", locationLookups |-> 0,
   issued |-> {}, reissued |-> FALSE, sent |-> "", chunks |-> 0, cut |-> FALSE]

Init ==
  /\ marker = [o \in OrderIds |-> FALSE]
  /\ level = [p \in InvItems \X {Locations[1], Locations[2]} |-> InitLevel]
  /\ hd = [i \in Inv |-> IdleFrame]
  /\ gh = [i \in Inv |-> IdleHistory]
  /\ ext = [it \in InvItems |-> 0]
  /\ nExt = 0
  /\ variants = [p \in {"P1", "P2"} |->
                   IF p = "P1" THEN CatalogP1(2, [k \in 1..2 |-> 0]) ELSE CatalogP2]
  /\ dateNow = Clock0
  /\ MAX_VARIANTS = 3
  /\ sw = IdleSweep
  /\ cv = IdleCreate
  /\ Quiet

Respond_retries(h, code) == h

Respond_hangs(h, code) == [h EXCEPT !.pc = "hung"]

\* res.status(code).send(...)
Respond(h, code) == [h EXCEPT !.pc = "done", !.status = code]

Advance_same(h) ==
  LET j == NextItem(h.order.line_items, h.idx - 1)
  IN [h EXCEPT !.idx = j, !.metafieldValue = Null, !.starterVariantId = Null,
               !.inventoryItemId = Null,
               !.pc = IF j = 0 THEN "markOrderAsProcessed" ELSE "metafield"]

\* end of one loop iteration (or `continue`): on to the next processed item,
\* or out of the loop to markOrderAsProcessed
Advance(h) ==
  LET j == NextItem(h.order.line_items, h.idx)
  IN [h EXCEPT !.idx = j, !.metafieldValue = Null, !.starterVariantId = Null,
               !.inventoryItemId = Null,
               !.pc = IF j = 0 THEN "markOrderAsProcessed" ELSE "metafield"]

\* a shopifyFetch is issued: `call` for line item k (0: for the whole order)
Called(g, k, call) ==
  [g EXCEPT !.calls = @ + 1, !.touched = IF k = 0 THEN @ ELSE @ \cup {k},
            !.issued = @ \cup {<<call, k>>},
            !.reissued = @ \/ <<call, k>> \in g.issued]

Adjusted(g, k, input, qty, ok) ==
  [g EXCEPT !.adj[k] = [n |-> @.n + 1, input |-> input,
                        accepted |-> @.accepted + (IF ok THEN qty ELSE 0)]]

\* the latest shopifyFetch of an invocation: which call, and how it answered
Answered(g, call, out) == [g EXCEPT !.lastCall = call, !.lastOut = out]

CurItem(h) == h.order.line_items[h.idx]

\* productVariant(id: $id): the node, or Null when no variant has that gid
\* (there never was one, or it has been deleted)
productVariant(gid) ==
  IF /\ Len(gid.chars) = 2
     /\ gid.chars[1] = GidPrefix
     /\ gid.chars[2] \in DOMAIN VariantStore
     /\ \E p \in DOMAIN variants : \E k \in DOMAIN variants[p] :
           variants[p][k].id = gid.chars[2]
  THEN VariantStore[gid.chars[2]]
  ELSE Null

Outcomes == {"ok", "errors"}
MutationOutcomes == {"ok", "userErrors", "errors"}

shopifyFetchThrows_never(out) == FALSE

\* shopifyFetch: if (json.errors) throw
shopifyFetchThrows(out) == out = "errors"

\* what the handler writes to the console when `call` has answered `out`:
\* the fixed first arguments of console.error / console.warn, in order and
\* without their leading symbol (lines 49, 117, 184, 287, catch of line 295)
consoleOutput(call, out) ==
  LET thrown == IF out = "errors" THEN <<"Shopify GraphQL errors:">> ELSE <<>>
      own == CASE call = "metafield" /\ out = "errors" ->
                    <<"Could not fetch variant metafield:">>
               [] call = "adjust" /\ out = "userErrors" -> <<"Inventory errors:">>
               [] call = "markOrderAsProcessed" /\ out = "userErrors" ->
                    <<"Failed to mark order as processed:">>
               [] OTHER -> <<>>
      caught == IF \/ out = "errors" /\ call # "metafield"
                   \/ out = "userErrors" /\ call \in {"adjust", "markOrderAsProcessed"}
                   \/ out = "notFound"
                THEN <<"Webhook failure:">> ELSE <<>>
  IN thrown \o own \o caught

(* ------------------------------ actions -------------------------------- *)
\* a delivery arrives and its body has been read (req.on("end")); invocation
\* numbers are handed out in order of arrival
Start(i) ==
  /\ hd[i].pc = "idle"
  /\ \A j \in Inv : j < i => hd[j].pc # "idle"
  /\ \E r \in Requests :
       /\ hd' = [hd EXCEPT ![i] = [@ EXCEPT !.pc = "end", !.rawBody = r.rawBody,
                                            !.shopifyHmac = r.shopifyHmac]]
       /\ gh' = [gh EXCEPT ![i] = [@ EXCEPT
                   !.late = LET o == JSONparse(r.rawBody)
                            IN o # Malformed /\ marker[o.id],
                   !.afterMarkFail =
                     \E j \in Inv : /\ hd[j].pc = "done"
                                    /\ hd[j].rawBody = r.rawBody
                                    /\ gh[j].markWrite \in {"userErrors", "errors"}]]
  /\ UNCHANGED <<marker, level, ext, nExt>>
  /\ UNCHANGED <<sweepVars, createVars, concurrentVars>>

\* lines 134-141: signature check, then JSON.parse
Verify(i) ==
  /\ hd[i].pc = "end"
  /\ IF ~verifyWebhook(hd[i].rawBody, hd[i].shopifyHmac)
     THEN /\ hd' = [hd EXCEPT ![i] = Respond(@, 401)]
          /\ gh' = gh
     ELSE LET order == JSONparse(hd[i].rawBody)
          IN /\ gh' = [gh EXCEPT ![i].parsed = TRUE]
             /\ IF order = Malformed
                THEN hd' = [hd EXCEPT ![i] = Respond(@, 500)]
                ELSE hd' = [hd EXCEPT ![i] = [@ EXCEPT !.order = order,
                                                       !.pc = "isOrderProcessed"]]
  /\ UNCHANGED <<marker, level, ext, nExt>>
  /\ UNCHANGED <<sweepVars, createVars, concurrentVars>>

\* lines 143-146 with isOrderProcessed (74-89)
IsOrderProcessed(i) ==
  /\ hd[i].pc = "isOrderProcessed"
  /\ \E out \in Outcomes :
       IF shopifyFetchThrows(out)
       THEN /\ hd' = [hd EXCEPT ![i] = Respond(@, 500)]
            /\ gh' = [gh EXCEPT ![i] =
                        [Answered(Called(@, 0, "isOrderProcessed"), "isOrderProcessed", out)
                           EXCEPT !.markRead = "errors"]]
       ELSE LET present == marker[hd[i].order.id]
                metafield == IF present THEN Str(<<"true">>) ELSE Null
            IN /\ gh' = [gh EXCEPT ![i] =
                           [Answered(Called(@, 0, "isOrderProcessed"), "isOrderProcessed", out)
                              EXCEPT !.markRead =
                                 IF present THEN "present" ELSE "absent"]]
               /\ IF isOrderProcessed(metafield)
                  THEN hd' = [hd EXCEPT ![i] = Respond(@, 200)]
                  ELSE hd' = [hd EXCEPT ![i].pc = "getPrimaryLocationId"]
  /\ UNCHANGED <<marker, level, ext, nExt>>
  /\ UNCHANGED <<sweepVars, createVars, concurrentVars>>

\* line 148 with getPrimaryLocationId (59-69), then entry of the loop (150-159)
GetPrimaryLocationId(i) ==
  /\ hd[i].pc = "getPrimaryLocationId"
  /\ \E out \in Outcomes :
       /\ gh' = [gh EXCEPT ![i] =
                   [Answered(Called(@, 0, "getPrimaryLocationId"), "getPrimaryLocationId", out)
                      EXCEPT !.locationLookups = @ + 1]]
       /\ IF shopifyFetchThrows(out)
          THEN hd' = [hd EXCEPT ![i] = Respond(@, 500)]
          ELSE hd' = [hd EXCEPT ![i] = Advance([@ EXCEPT !.locationId = Locations[1]])]
  /\ UNCHANGED <<marker, level, ext, nExt>>
  /\ UNCHANGED <<sweepVars, createVars, concurrentVars>>

\* lines 163-199: metafield lookup (errors caught), legacy property, branch
FetchVariantMetafield(i) ==
  /\ hd[i].pc = "metafield"
  /\ \E out \in Outcomes :
       LET value == IF shopifyFetchThrows(out) THEN Null
                    ELSE MetafieldValue(
                           productVariant(VariantGid(CurItem(hd[i]).variant_id)))
           sv == ResolveStarterVariantId(value, CurItem(hd[i]))
       IN /\ gh' = [gh EXCEPT ![i] = Answered(Called(@, hd[i].idx, "metafield"), "metafield", out)]
          /\ hd' = [hd EXCEPT ![i] = [@ EXCEPT !.starterVariantId = sv,
                       !.metafieldValue = value,
                       !.pc = IF Falsy(sv) THEN "product" ELSE "starterVariant"]]
  /\ UNCHANGED <<marker, level, ext, nExt>>
  /\ UNCHANGED <<sweepVars, createVars, concurrentVars>>

\* lines 200-214: first variant of the product
FetchProduct(i) ==
  /\ hd[i].pc = "product"
  /\ \E out \in Outcomes :
       LET p == product(CurItem(hd[i]).product_id)
       IN /\ gh' = [gh EXCEPT ![i] = Answered(Called(@, hd[i].idx, "product"), "product", out)]
          /\ IF \/ shopifyFetchThrows(out)
                \/ p = Null
                \/ p.variants = <<>>
                \/ VariantStore[p.variants[1]].inventoryItem = Null
             THEN hd' = [hd EXCEPT ![i] = Respond(@, 500)]
             ELSE hd' = [hd EXCEPT ![i] = [@ EXCEPT !.pc = "fallbackAdjust",
                          !.inventoryItemId = VariantStore[p.variants[1]].inventoryItem]]
  /\ UNCHANGED <<marker, level, ext, nExt>>
  /\ UNCHANGED <<sweepVars, createVars, concurrentVars>>

continue_toNormalStep(h) == [h EXCEPT !.pc = "adjust"]

\* line 239, `continue`: the normal deduction step is skipped for this item
continue(h) == Advance(h)

\* lines 216-239: adjustment on the fallback path; the result is not read
FallbackAdjust(i) ==
  /\ hd[i].pc = "fallbackAdjust"
  /\ LET item == CurItem(hd[i])
         input == AdjustInput(hd[i].inventoryItemId, hd[i].locationId, item.quantity)
     IN \E out \in MutationOutcomes :
          /\ out = "ok" => Stocked(level, input)
          /\ gh' = [gh EXCEPT ![i] =
                      Answered(Adjusted(Called(@, hd[i].idx, "fallbackAdjust"), hd[i].idx, input,
                                        item.quantity, out = "ok"),
                               "fallbackAdjust", out)]
          /\ level' = IF out = "ok" THEN inventoryAdjustQuantities(level, input)
                      ELSE level
          /\ IF shopifyFetchThrows(out)
             THEN hd' = [hd EXCEPT ![i] = Respond(@, 500)]
             ELSE hd' = [hd EXCEPT ![i] = continue(@)]
  /\ UNCHANGED <<marker, ext, nExt>>
  /\ UNCHANGED <<sweepVars, createVars, concurrentVars>>

starterVariantNotFound_skips(h) == Advance(h)

\* lines 257-259: throw new Error(`Starter variant ... not found`), caught at
\* line 294
starterVariantNotFound(h) == Respond(h, 500)

\* lines 242-259: inventory item of the starter variant
FetchStarterVariant(i) ==
  /\ hd[i].pc = "starterVariant"
  /\ \E out \in Outcomes :
       LET node == productVariant(VariantGid(hd[i].starterVariantId))
       IN /\ gh' = [gh EXCEPT ![i] =
                      Answered(Called(@, hd[i].idx, "starterVariant"), "starterVariant",
                               IF out = "ok" /\ starterInventoryItemMissing(node)
                               THEN "notFound" ELSE out)]
          /\ IF shopifyFetchThrows(out)
             THEN hd' = [hd EXCEPT ![i] = Respond(@, 500)]
             ELSE IF starterInventoryItemMissing(node)
             THEN hd' = [hd EXCEPT ![i] = starterVariantNotFound(@)]
             ELSE hd' = [hd EXCEPT ![i] = [@ EXCEPT !.pc = "adjust",
                          !.inventoryItemId =
                            IF node = Null THEN Null ELSE node.inventoryItem]]
  /\ UNCHANGED <<marker, level, ext, nExt>>
  /\ UNCHANGED <<sweepVars, createVars, concurrentVars>>

\* lines 261-290: adjustment for the starter variant, userErrors checked
AdjustInventory(i) ==
  /\ hd[i].pc = "adjust"
  /\ LET item == CurItem(hd[i])
         input == AdjustInput(hd[i].inventoryItemId, hd[i].locationId, item.quantity)
     IN \E out \in MutationOutcomes :
          /\ out = "ok" => Stocked(level, input)
          /\ gh' = [gh EXCEPT ![i] =
                      Answered(Adjusted(Called(@, hd[i].idx, "adjust"), hd[i].idx, input,
                                        item.quantity, out = "ok"),
                               "adjust", out)]
          /\ level' = IF out = "ok" THEN inventoryAdjustQuantities(level, input)
                      ELSE level
          /\ IF ~shopifyFetchThrows(out) /\ out # "userErrors"
             THEN hd' = [hd EXCEPT ![i] = Advance(@)]
             ELSE hd' = [hd EXCEPT ![i] = Respond(@, 500)]
  /\ UNCHANGED <<marker, ext, nExt>>
  /\ UNCHANGED <<sweepVars, createVars, concurrentVars>>

markFailed_uncheckedUserErrors(out) == shopifyFetchThrows(out)

\* markOrderAsProcessed throws: GraphQL errors (shopifyFetch) or userErrors
markFailed(out) == shopifyFetchThrows(out) \/ out = "userErrors"

metafieldsSet_toggles(markers, orderId) == [markers EXCEPT ![orderId] = ~@]

metafieldsSet_everyOrder(markers, orderId) == [o \in DOMAIN markers |-> TRUE]

\* metafieldsSet on the store: inventory_processed of the order is "true"
metafieldsSet(markers, orderId) == [markers EXCEPT ![orderId] = TRUE]

\* lines 292-293 with markOrderAsProcessed (94-120)
MarkOrderAsProcessed(i) ==
  /\ hd[i].pc = "markOrderAsProcessed"
  /\ \E out \in MutationOutcomes :
       /\ gh' = [gh EXCEPT ![i] =
                   [Answered(Called(@, 0, "markOrderAsProcessed"), "markOrderAsProcessed", out)
                      EXCEPT !.markWrite = out]]
       /\ marker' = IF out = "ok" THEN metafieldsSet(marker, hd[i].order.id)
                    ELSE marker
       /\ hd' = [hd EXCEPT ![i] = Respond(@, IF markFailed(out) THEN 500 ELSE 200)]
  /\ UNCHANGED <<level, ext, nExt>>
  /\ UNCHANGED <<sweepVars, createVars, concurrentVars>>

\* another source (staff, another app) adjusts a level at the shop location
ExtDeltas == {0 - 1, 3}
ExtItems == {"I1", "I2", "I3"}
ExternalAdjust ==
  /\ nExt < MaxExt
  /\ \E it \in ExtItems, d \in ExtDeltas :
       /\ level' = [level EXCEPT ![<<it, Locations[1]>>] = @ + d]
       /\ ext' = [ext EXCEPT ![it] = @ + d]
  /\ nExt' = nExt + 1
  /\ UNCHANGED <<marker, hd, gh>>
  /\ UNCHANGED <<sweepVars, createVars, concurrentVars>>

\* one step of invocation i
Handler(i) ==
  \/ Start(i)
  \/ Verify(i)
  \/ IsOrderProcessed(i)
  \/ GetPrimaryLocationId(i)
  \/ FetchVariantMetafield(i)
  \/ FetchProduct(i)
  \/ FallbackAdjust(i)
  \/ FetchStarterVariant(i)
  \/ AdjustInventory(i)
  \/ MarkOrderAsProcessed(i)

\* deliveries of the shop's webhook, overlapping at will
Next == \E i \in Inv : Handler(i)

Spec == Init /\ [][Next]_vars

\* two deliveries that overlap; every remote call returns and the handler
\* runs on: an invocation that can take a step does not wait forever
Pair == {1, 2}
NextPair == \E i \in Pair : Handler(i)
Fairness == \A i \in Pair : WF_vars(Handler(i))

SpecFair == Init /\ [][NextPair]_vars /\ Fairness

\* one delivery, interleaved with the adjustments of other sources
NextExt == ExternalAdjust \/ Handler(1)

SpecExt == Init /\ [][NextExt]_vars

(* ---------------------- the body arrives in chunks --------------------- *)
\* the shop sends a body with the digest of its bytes; lines 125-130
Deliver(i) ==
  /\ hd[i].pc = "idle"
  /\ \E text \in Texts :
       /\ hd' = [hd EXCEPT ![i] = [@ EXCEPT !.pc = "data", !.rawBody = "",
                    !.incoming = encode(text),
                    !.shopifyHmac = HmacSha256Base64(WEBHOOK_SECRET, join(text))]]
       /\ gh' = [gh EXCEPT ![i].sent = join(text)]
  /\ UNCHANGED <<marker, level, ext, nExt>>
  /\ UNCHANGED <<sweepVars, createVars, concurrentVars>>

\* lines 128-130: the transport hands over the next bytes, as many as it likes
OnData(i) ==
  /\ hd[i].pc = "data"
  /\ \E n \in 1..Len(hd[i].incoming) :
       LET chunk == SubSeq(hd[i].incoming, 1, n)
           rest == SubSeq(hd[i].incoming, n + 1, Len(hd[i].incoming))
       IN /\ hd' = [hd EXCEPT ![i] = [@ EXCEPT !.rawBody = onData(@, chunk),
                                               !.incoming = rest]]
          /\ gh' = [gh EXCEPT ![i] = [@ EXCEPT !.chunks = @ + 1,
                       !.cut = @ \/ (rest # <<>> /\ Head(rest) \in Continuation)]]
  /\ UNCHANGED <<marker, level, ext, nExt>>
  /\ UNCHANGED <<sweepVars, createVars, concurrentVars>>

\* line 132: the body is complete
OnEnd(i) ==
  /\ hd[i].pc = "data"
  /\ hd[i].incoming = <<>>
  /\ hd' = [hd EXCEPT ![i].pc = "end"]
  /\ UNCHANGED <<marker, level, ext, nExt, gh>>
  /\ UNCHANGED <<sweepVars, createVars, concurrentVars>>

\* one delivery, from its first chunk to the signature check
NextReceive == Deliver(1) \/ OnData(1) \/ OnEnd(1) \/ Verify(1)

SpecReceive == Init /\ [][NextReceive]_vars

(* ---------------------- cleanup-variants: the sweep -------------------- *)
\* position in the listing of the product a cursor points at, 0 for null
After(cursor) ==
  IF cursor = Null THEN 0
  ELSE CHOOSE k \in DOMAIN CatalogOrder : Str(<<CatalogOrder[k]>>) = cursor

\* an edge of the listing: the product with its variants as the store has them
Edge(p) == [cursor |-> Str(<<p>>), node |-> [id |-> p, variants |-> variants[p]]]

\* data.products for a page of the n products that follow the cursor
Page(cursor, n) ==
  [edges |-> [k \in 1..n |-> Edge(CatalogOrder[After(cursor) + k])],
   hasNextPage |-> After(cursor) + n < Len(CatalogOrder)]

\* data.products.edges.at(-1)?.cursor || null
lastCursor(edges) == IF edges = <<>> THEN Null ELSE edges[Len(edges)].cursor

\* lines 137-138, the loop test of line 104 and the response of line 142
EndOfPage(s) ==
  LET hasNextPage == s.data.hasNextPage
      cursor == lastCursor(s.data.edges)
      t == [s EXCEPT !.hasNextPage = hasNextPage, !.cursor = cursor,
                     !.resets = IF hasNextPage /\ cursor = Null /\ s.cursor # Null
                                THEN @ + 1 ELSE @]
  IN IF hasNextPage THEN [t EXCEPT !.pc = "page"] ELSE Respond(t, 200)

\* cleanupProduct has returned: the next edge of the page, or the page is over
AfterProduct(s) ==
  IF s.pos < Len(s.data.edges)
  THEN [s EXCEPT !.pos = @ + 1, !.pc = "cleanupProduct", !.finished = TRUE]
  ELSE EndOfPage([s EXCEPT !.finished = TRUE])

\* the variant is in the store
Exists(id) == \E p \in DOMAIN variants : \E k \in DOMAIN variants[p] : variants[p][k].id = id

\* productVariantDelete on the store
productVariantDelete(id) ==
  [p \in DOMAIN variants |-> SelectSeq(variants[p], LAMBDA v : v.id # id)]

initialCursor_checkpoint(s) == s.cursor

\* line 101, `let cursor = null`: nothing of an earlier sweep s is used
initialCursor(s) == Null

\* GET, lines 97-103: the frame of a sweep that starts after s; `before` is
\* the store as the sweep finds it
Started(s) ==
  [IdleSweep EXCEPT !.pc = "page", !.cursor = initialCursor(s), !.hasNextPage = TRUE,
                    !.before = variants]

\* GET, lines 97-103
SweepStart ==
  /\ sw.pc = "idle"
  /\ sw' = Started(sw)
  /\ UNCHANGED <<variants, dateNow, MAX_VARIANTS>>
  /\ UNCHANGED <<webhookVars, createVars, concurrentVars>>

\* GET is invoked again after a sweep has answered
SweepAgain ==
  /\ sw.pc = "done"
  /\ sw' = [Started(sw) EXCEPT !.again = TRUE, !.prevStatus = sw.status,
                               !.prevRefused = sw.anyRefused]
  /\ UNCHANGED <<variants, dateNow, MAX_VARIANTS>>
  /\ UNCHANGED <<webhookVars, createVars, concurrentVars>>

\* lines 104-133: one page of the listing arrives (at most `first` products)
FetchPage ==
  /\ sw.pc = "page"
  /\ sw.pages < MaxPages
  /\ \E out \in Outcomes :
       IF shopifyFetchThrows(out)
       THEN sw' = Respond([sw EXCEPT !.pages = @ + 1, !.lastCall = "products",
                                     !.lastOut = out], 500)
       ELSE \E n \in 0..(Len(CatalogOrder) - After(sw.cursor)) :
              LET s == [sw EXCEPT !.pages = @ + 1, !.data = Page(sw.cursor, n),
                                  !.lastCall = "products", !.lastOut = out]
              IN IF n = 0 THEN sw' = EndOfPage(s)
                 ELSE sw' = [s EXCEPT !.pos = 1, !.pc = "cleanupProduct"]
  /\ UNCHANGED <<variants, dateNow, MAX_VARIANTS>>
  /\ UNCHANGED <<webhookVars, createVars, concurrentVars>>

\* lines 134 and 52-73: cleanupProduct is called for the next edge of the page
CleanupProduct ==
  /\ sw.pc = "cleanupProduct"
  /\ LET node == sw.data.edges[sw.pos].node
         td == toDelete(node, MAX_VARIANTS, dateNow)
         s == [sw EXCEPT !.product = node, !.at = dateNow, !.toDelete = td,
                         !.di = 1, !.visits[node.id] = @ + 1,
                         !.deleted = <<>>, !.refused = FALSE, !.finished = FALSE]
     IN IF td = <<>> THEN sw' = AfterProduct(s)
        ELSE sw' = [s EXCEPT !.pc = "delete"]
  /\ UNCHANGED <<variants, dateNow, MAX_VARIANTS>>
  /\ UNCHANGED <<webhookVars, createVars, concurrentVars>>

\* lines 75-91: one productVariantDelete; its userErrors are not read
DeleteVariant ==
  /\ sw.pc = "delete"
  /\ LET id == sw.toDelete[sw.di].id
     IN \E out \in MutationOutcomes :
          /\ out = "ok" => Exists(id)
          /\ variants' = IF out = "ok" THEN productVariantDelete(id) ELSE variants
          /\ LET s == [sw EXCEPT !.deleted = IF out = "ok" THEN Append(@, id) ELSE @,
                                 !.removed = IF out = "ok" THEN @ \cup {id} ELSE @,
                                 !.lastCall = "productVariantDelete", !.lastOut = out,
                                 !.refused = @ \/ out = "userErrors",
                                 !.anyRefused = @ \/ out = "userErrors"]
             IN IF shopifyFetchThrows(out) THEN sw' = Respond(s, 500)
                ELSE IF sw.di < Len(sw.toDelete) THEN sw' = [s EXCEPT !.di = @ + 1]
                ELSE sw' = AfterProduct(s)
  /\ UNCHANGED <<dateNow, MAX_VARIANTS>>
  /\ UNCHANGED <<webhookVars, createVars, concurrentVars>>

\* time passes
Tick ==
  /\ dateNow < MaxClock
  /\ dateNow' = dateNow + 1
  /\ UNCHANGED <<variants, MAX_VARIANTS, sw>>
  /\ UNCHANGED <<webhookVars, createVars, concurrentVars>>

\* one sweep over a catalog, with any configured ceiling
InitSweep ==
  /\ marker = [o \in OrderIds |-> FALSE]
  /\ level = [p \in InvItems \X {Locations[1], Locations[2]} |-> InitLevel]
  /\ hd = [i \in Inv |-> IdleFrame]
  /\ gh = [i \in Inv |-> IdleHistory]
  /\ ext = [it \in InvItems |-> 0]
  /\ nExt = 0
  /\ variants \in Catalogs
  /\ dateNow = Clock0
  /\ MAX_VARIANTS \in Ceilings
  /\ sw = IdleSweep
  /\ cv = IdleCreate
  /\ Quiet

NextSweep == SweepStart \/ FetchPage \/ CleanupProduct \/ DeleteVariant \/ Tick

SpecSweep == InitSweep /\ [][NextSweep]_vars

\* sweep after sweep at a fixed time, as the scheduler invokes GET
NextSweeps == SweepStart \/ FetchPage \/ CleanupProduct \/ DeleteVariant \/ SweepAgain

SpecSweeps == InitSweep /\ [][NextSweeps]_vars

(* -------------------- an order is paid, a sweep runs ------------------- *)
\* the shop of Init with ceiling 1: P1 has the temporary variants 11 (which
\* carries the starter annotation) and 12, both older than the buffer
InitEvict ==
  /\ marker = [o \in OrderIds |-> FALSE]
  /\ level = [p \in InvItems \X {Locations[1], Locations[2]} |-> InitLevel]
  /\ hd = [i \in Inv |-> IdleFrame]
  /\ gh = [i \in Inv |-> IdleHistory]
  /\ ext = [it \in InvItems |-> 0]
  /\ nExt = 0
  /\ variants = [p \in {"P1", "P2"} |->
                   IF p = "P1" THEN CatalogP1(2, [k \in 1..2 |-> 0]) ELSE CatalogP2]
  /\ dateNow = Clock0
  /\ MAX_VARIANTS = 1
  /\ sw = IdleSweep
  /\ cv = IdleCreate
  /\ Quiet

NextEvict ==
  \/ Handler(1)
  \/ SweepStart \/ FetchPage \/ CleanupProduct \/ DeleteVariant

\* one delivery of the webhook is processed while one sweep runs
SpecEvict == InitEvict /\ [][NextEvict]_vars

(* ------------------------- create-variant handler --------------------- *)
\* the number 0 of a JSON body
Zero == [kind |-> "number", chars |-> <<"0">>]

\* !x for a value of the request body
not(x) == Falsy(x) \/ x = Zero

\* requests: lengths and widths are given by their decimal text
Modes == {Null, Str(<<"length">>), Str(<<"width">>), Str(<<"area">>), Str(<<"volume">>)}
LengthValues == {Null, Zero, Str(<<"1200">>)}
WidthValues == {Null, Str(<<"500">>)}
SelectedVariantIds == {Null, Str(<<"22">>), Str(<<GidPrefix, "23">>), Str(<<"99">>)}

CreateRequests ==
  {[method |-> "POST", productId |-> p, selectedVariantId |-> v, mode |-> m,
    lengthMm |-> l, widthMm |-> w] :
     p \in {Null, Str(<<"P1">>)}, v \in SelectedVariantIds, m \in Modes,
     l \in LengthValues, w \in WidthValues}
  \cup {[method |-> "GET", productId |-> Str(<<"P1">>), selectedVariantId |-> Null,
         mode |-> Str(<<"length">>), lengthMm |-> Str(<<"1200">>), widthMm |-> Null]}

\* lines 8-37: the status the request is refused with, 0 when it is accepted
validate(body) ==
  IF body.method # "POST" THEN 405
  ELSE IF not(body.productId) \/ not(body.mode) THEN 400
  ELSE IF body.mode = Str(<<"area">>)
       THEN (IF not(body.lengthMm) \/ not(body.widthMm) THEN 400 ELSE 0)
  ELSE IF body.mode = Str(<<"length">>)
       THEN (IF not(body.lengthMm) THEN 400 ELSE 0)
  ELSE IF body.mode = Str(<<"width">>)
       THEN (IF not(body.widthMm) THEN 400 ELSE 0)
  ELSE 400

\* `${label} | ${dimMm} mm`
segment(label, dimMm) == <<label, " ", "|", " ">> \o dimMm.chars \o <<" ", "mm">>

variantOptionValue_byDimensions(mode, lengthMm, widthMm) ==
  IF ~not(lengthMm) /\ ~not(widthMm)
  THEN Str(segment("Länge", lengthMm) \o <<" ", "X", " ">> \o segment("Breite", widthMm))
  ELSE IF ~not(lengthMm) THEN Str(segment("Länge", lengthMm))
  ELSE Str(segment("Breite", widthMm))

\* lines 114-124: the option label of the variant
variantOptionValue(mode, lengthMm, widthMm) ==
  IF mode = Str(<<"area">>)
  THEN Str(segment("Länge", lengthMm) \o <<" ", "X", " ">> \o segment("Breite", widthMm))
  ELSE LET dimMm == IF mode = Str(<<"length">>) THEN lengthMm ELSE widthMm
           label == IF mode = Str(<<"length">>) THEN "Länge" ELSE "Breite"
       IN Str(segment(label, dimMm))

firstVariantId_last(productId) ==
  Str(<<variants[productId.chars[1]][Len(variants[productId.chars[1]])].id>>)

\* product.variants.edges[0].node.id, its numeric part
firstVariantId(productId) == Str(<<variants[productId.chars[1]][1].id>>)

\* a variant with this numeric id is in the store
variantFound(numericVariantId) ==
  Len(numericVariantId.chars) = 1 /\ Exists(numericVariantId.chars[1])

\* productJson.product.variants.find(v => v.option1 === variantOptionValue)
existingVariant(productId, label) ==
  LET vs == variants[productId.chars[1]]
      hits == {k \in DOMAIN vs : vs[k].title = label}
  IN IF hits = {} THEN Null ELSE vs[CHOOSE k \in hits : \A m \in hits : k <= m]

RestOutcomes == {"ok", "notOk", "throws"}
NewVariantId == "41"

\* lines 7-37: a request arrives and is validated
CreateStart ==
  /\ cv.pc = "idle"
  /\ \E body \in CreateRequests :
       LET s == [cv EXCEPT !.body = body]
       IN IF validate(body) # 0 THEN cv' = Respond(s, validate(body))
          ELSE IF ~not(body.selectedVariantId)
          THEN cv' = [s EXCEPT !.pc = "selectedVariant"]
          ELSE cv' = [s EXCEPT !.pc = "firstVariant"]
  /\ UNCHANGED <<webhookVars, sweepVars, concurrentVars>>

\* lines 81-100: the selected variant is looked up
FetchSelectedVariant ==
  /\ cv.pc = "selectedVariant"
  /\ LET numericVariantId == StripPrefix(cv.body.selectedVariantId)
     IN \E out \in RestOutcomes :
          /\ out = "ok" => variantFound(numericVariantId)
          /\ IF out = "throws" THEN cv' = Respond(cv, 500)
             ELSE IF out = "ok"
             THEN cv' = [cv EXCEPT !.starterVariantId = numericVariantId,
                                   !.variantOptionValue =
                                      variantOptionValue(cv.body.mode, cv.body.lengthMm,
                                                         cv.body.widthMm),
                                   !.pc = "product"]
             ELSE cv' = [cv EXCEPT !.pc = "firstVariant"]
  /\ UNCHANGED <<webhookVars, sweepVars, concurrentVars>>

\* lines 47-79 and 108-124: first variant of the product, then the label
FetchFirstVariant ==
  /\ cv.pc = "firstVariant"
  /\ \E out \in Outcomes :
       IF out = "errors" THEN cv' = Respond(cv, 500)
       ELSE cv' = [cv EXCEPT !.starterVariantId = firstVariantId(cv.body.productId),
                             !.variantOptionValue =
                                variantOptionValue(cv.body.mode, cv.body.lengthMm,
                                                   cv.body.widthMm),
                             !.pc = "product"]
  /\ UNCHANGED <<webhookVars, sweepVars, concurrentVars>>

\* lines 129-182: the product is read; a variant with the label may exist
FetchProductJson ==
  /\ cv.pc = "product"
  /\ \E out \in {"ok", "throws"} :
       IF out = "throws" THEN cv' = Respond(cv, 500)
       ELSE LET found == existingVariant(cv.body.productId, cv.variantOptionValue)
            IN IF found # Null
               THEN cv' = [Respond(cv, 200) EXCEPT !.isExisting = TRUE,
                                                   !.variantId = Str(<<found.id>>)]
               ELSE cv' = [cv EXCEPT !.pc = "create"]
  /\ UNCHANGED <<webhookVars, sweepVars, concurrentVars>>

\* lines 187-213: the variant is created
CreateVariant ==
  /\ cv.pc = "create"
  /\ \E out \in RestOutcomes :
       /\ out = "ok" => ~Exists(NewVariantId)
       /\ IF out = "ok"
          THEN LET p == cv.body.productId.chars[1]
                   variant == Variant(NewVariantId, cv.variantOptionValue, dateNow)
               IN /\ variants' = [variants EXCEPT ![p] = Append(@, variant)]
                  /\ cv' = [cv EXCEPT !.variant = variant, !.pc = "metafield"]
          ELSE /\ variants' = variants
               /\ cv' = Respond(cv, IF out = "notOk" THEN 400 ELSE 500)
  /\ UNCHANGED <<dateNow, MAX_VARIANTS, sw>>
  /\ UNCHANGED <<webhookVars, concurrentVars>>

\* the store's variants with one field of one variant set
WithField(id, field, value) ==
  [p \in DOMAIN variants |->
     [k \in DOMAIN variants[p] |->
        IF variants[p][k].id = id THEN [variants[p][k] EXCEPT ![field] = value]
        ELSE variants[p][k]]]

\* lines 215-257: the starter variant id is stored on the new variant; a
\* failure to store it is logged and does not fail the request
SetStarterMetafield ==
  /\ cv.pc = "metafield"
  /\ \E out \in MutationOutcomes \cup {"throws"} :
       /\ variants' = IF out = "ok"
                      THEN WithField(cv.variant.id, "metafield", cv.starterVariantId)
                      ELSE variants
       /\ IF out = "throws" THEN cv' = Respond([cv EXCEPT !.metafieldOut = out], 500)
          ELSE cv' = [cv EXCEPT !.pc = "inventory", !.metafieldOut = out]
  /\ UNCHANGED <<dateNow, MAX_VARIANTS, sw>>
  /\ UNCHANGED <<webhookVars, concurrentVars>>

\* lines 259-304: inventory of the new variant set to 0 at the first location
SetInventory ==
  /\ cv.pc = "inventory"
  /\ \E out \in RestOutcomes :
       /\ variants' = IF out = "ok" THEN WithField(cv.variant.id, "available", 0)
                      ELSE variants
       /\ IF out = "throws" THEN cv' = Respond(cv, 500)
          ELSE cv' = [Respond(cv, 200) EXCEPT !.variantId = Str(<<cv.variant.id>>)]
  /\ UNCHANGED <<dateNow, MAX_VARIANTS, sw>>
  /\ UNCHANGED <<webhookVars, concurrentVars>>

NextCreate ==
  \/ CreateStart
  \/ FetchSelectedVariant
  \/ FetchFirstVariant
  \/ FetchProductJson
  \/ CreateVariant
  \/ SetStarterMetafield
  \/ SetInventory

\* a variant an earlier request has left in the product
LabelledVariant == Variant("40", Str(segment("Länge", Str(<<"1200">>))), 0)

\* the shop with or without a variant that already carries a label
InitCreate ==
  /\ marker = [o \in OrderIds |-> FALSE]
  /\ level = [p \in InvItems \X {Locations[1], Locations[2]} |-> InitLevel]
  /\ hd = [i \in Inv |-> IdleFrame]
  /\ gh = [i \in Inv |-> IdleHistory]
  /\ ext = [it \in InvItems |-> 0]
  /\ nExt = 0
  /\ \E extra \in {<<>>, <<LabelledVariant>>} :
        variants = [p \in {"P1", "P2"} |->
                      IF p = "P1" THEN CatalogP1(2, [k \in 1..2 |-> 0]) \o extra
                      ELSE CatalogP2]
  /\ dateNow = Clock0
  /\ MAX_VARIANTS = 3
  /\ sw = IdleSweep
  /\ cv = IdleCreate
  /\ Quiet

\* one create-variant request against the shop
SpecCreate == InitCreate /\ [][NextCreate]_vars

(* ------------------ create-variant: a concurrent request --------------- *)
\* a second request for P1 and length 1200, with no variant selected, and
\* the id the store gives to the variant it creates
OtherRequest ==
  [method |-> "POST", productId |-> Str(<<"P1">>), selectedVariantId |-> Null,
   mode |-> Str(<<"length">>), lengthMm |-> Str(<<"1200">>), widthMm |-> Null]
OtherVariantId == "42"

\* lines 7-37 and 97-103 for the second request: it is valid and selects no
\* variant
OtherStart ==
  /\ cw.pc = "idle"
  /\ validate(OtherRequest) = 0 /\ not(OtherRequest.selectedVariantId)
  /\ cw' = [cw EXCEPT !.body = OtherRequest, !.pc = "firstVariant"]
  /\ UNCHANGED <<gets, nNew>>
  /\ UNCHANGED <<webhookVars, sweepVars, createVars>>

\* lines 47-79 and 108-124 for the second request
OtherFetchFirstVariant ==
  /\ cw.pc = "firstVariant"
  /\ \E out \in Outcomes :
       IF out = "errors" THEN cw' = Respond(cw, 500)
       ELSE cw' = [cw EXCEPT !.starterVariantId = firstVariantId(cw.body.productId),
                             !.variantOptionValue =
                                variantOptionValue(cw.body.mode, cw.body.lengthMm,
                                                   cw.body.widthMm),
                             !.pc = "product"]
  /\ UNCHANGED <<gets, nNew>>
  /\ UNCHANGED <<webhookVars, sweepVars, createVars>>

\* lines 129-182 for the second request
OtherFetchProductJson ==
  /\ cw.pc = "product"
  /\ \E out \in {"ok", "throws"} :
       IF out = "throws" THEN cw' = Respond(cw, 500)
       ELSE LET found == existingVariant(cw.body.productId, cw.variantOptionValue)
            IN IF found # Null
               THEN cw' = [Respond(cw, 200) EXCEPT !.isExisting = TRUE,
                                                   !.variantId = Str(<<found.id>>)]
               ELSE cw' = [cw EXCEPT !.pc = "create"]
  /\ UNCHANGED <<gets, nNew>>
  /\ UNCHANGED <<webhookVars, sweepVars, createVars>>

\* lines 187-213 for the second request
OtherCreateVariant ==
  /\ cw.pc = "create"
  /\ \E out \in RestOutcomes :
       /\ out = "ok" => ~Exists(OtherVariantId)
       /\ IF out = "ok"
          THEN LET variant == Variant(OtherVariantId, cw.variantOptionValue, dateNow)
               IN /\ variants' = [variants EXCEPT ![cw.body.productId.chars[1]] =
                                                    Append(@, variant)]
                  /\ cw' = [cw EXCEPT !.variant = variant, !.pc = "metafield"]
          ELSE /\ variants' = variants
               /\ cw' = Respond(cw, IF out = "notOk" THEN 400 ELSE 500)
  /\ UNCHANGED <<dateNow, MAX_VARIANTS, sw>>
  /\ UNCHANGED <<gets, nNew>>
  /\ UNCHANGED <<webhookVars, createVars>>

\* lines 215-304 for the second request: the annotation, whose failure is
\* only logged, then the inventory of the new variant, then the answer
OtherSetStarterMetafield ==
  /\ cw.pc = "metafield"
  /\ \E out \in MutationOutcomes \cup {"throws"} :
       /\ variants' = IF out = "ok"
                      THEN WithField(cw.variant.id, "metafield", cw.starterVariantId)
                      ELSE variants
       /\ IF out = "throws" THEN cw' = Respond([cw EXCEPT !.metafieldOut = out], 500)
          ELSE cw' = [cw EXCEPT !.pc = "inventory", !.metafieldOut = out]
  /\ UNCHANGED <<dateNow, MAX_VARIANTS, sw>>
  /\ UNCHANGED <<gets, nNew>>
  /\ UNCHANGED <<webhookVars, createVars>>

OtherSetInventory ==
  /\ cw.pc = "inventory"
  /\ \E out \in RestOutcomes :
       /\ variants' = IF out = "ok" THEN WithField(cw.variant.id, "available", 0)
                      ELSE variants
       /\ IF out = "throws" THEN cw' = Respond(cw, 500)
          ELSE cw' = [Respond(cw, 200) EXCEPT !.variantId = Str(<<cw.variant.id>>)]
  /\ UNCHANGED <<dateNow, MAX_VARIANTS, sw>>
  /\ UNCHANGED <<gets, nNew>>
  /\ UNCHANGED <<webhookVars, createVars>>

NextRace ==
  \/ NextCreate
  \/ OtherStart
  \/ OtherFetchFirstVariant
  \/ OtherFetchProductJson
  \/ OtherCreateVariant
  \/ OtherSetStarterMetafield
  \/ OtherSetInventory

\* two create-variant requests against the shop, interleaved at will
SpecRace == InitCreate /\ [][NextRace]_vars

(* ------------------ cleanup-variants: overlapping sweeps --------------- *)
\* GET, lines 97-103, for invocation k
GetStart(k) ==
  /\ gets[k].pc = "idle"
  /\ gets' = [gets EXCEPT ![k].pc = "page"]
  /\ UNCHANGED <<nNew, cw>>
  /\ UNCHANGED <<webhookVars, sweepVars, createVars>>

\* lines 104-133: the catalog has fewer than 20 products, so the first page
\* carries all of them, each with its variants as the store has them now
GetFetchPage(k) ==
  /\ gets[k].pc = "page"
  /\ \E out \in Outcomes :
       IF shopifyFetchThrows(out)
       THEN gets' = [gets EXCEPT ![k] = Respond(@, 500)]
       ELSE gets' = [gets EXCEPT ![k].data = Page(Null, Len(CatalogOrder)),
                                 ![k].pos = 1, ![k].pc = "cleanupProduct"]
  /\ UNCHANGED <<nNew, cw>>
  /\ UNCHANGED <<webhookVars, sweepVars, createVars>>

\* lines 133-142 for invocation frame g: the next edge, or the answer
GetAfterProduct(g) ==
  IF g.pos < Len(g.data.edges) THEN [g EXCEPT !.pos = @ + 1, !.pc = "cleanupProduct"]
  ELSE Respond(g, 200)

\* lines 134 and 52-73 for invocation k
GetCleanupProduct(k) ==
  /\ gets[k].pc = "cleanupProduct"
  /\ LET g == gets[k]
         td == toDelete(g.data.edges[g.pos].node, MAX_VARIANTS, dateNow)
         h == [g EXCEPT !.toDelete = td, !.di = 1]
     IN gets' = [gets EXCEPT ![k] = IF td = <<>> THEN GetAfterProduct(h)
                                     ELSE [h EXCEPT !.pc = "delete"]]
  /\ UNCHANGED <<nNew, cw>>
  /\ UNCHANGED <<webhookVars, sweepVars, createVars>>

\* lines 75-91 for invocation k: one productVariantDelete; the store refuses
\* to delete a variant that is gone
GetDelete(k) ==
  /\ gets[k].pc = "delete"
  /\ LET g == gets[k]
         id == g.toDelete[g.di].id
     IN \E out \in MutationOutcomes :
          /\ out = "ok" => Exists(id)
          /\ variants' = IF out = "ok" THEN productVariantDelete(id) ELSE variants
          /\ gets' = [gets EXCEPT ![k] =
                        IF shopifyFetchThrows(out) THEN Respond(g, 500)
                        ELSE IF g.di < Len(g.toDelete) THEN [g EXCEPT !.di = @ + 1]
                        ELSE GetAfterProduct(g)]
  /\ UNCHANGED <<dateNow, MAX_VARIANTS, sw>>
  /\ UNCHANGED <<nNew, cw>>
  /\ UNCHANGED <<webhookVars, createVars>>

\* ids the store gives to the variants provisioned while sweeps run
NewIds == <<"51", "52">>

\* api/create-variant.js, line 299: `${dimensionLang} | ${dimensionMm} mm`
optionValue(dimensionLang, dimensionMm) == Str(segment(dimensionLang, dimensionMm))

\* a create-variant request for a dimension P1 has no variant of yet is
\* served meanwhile: its variant joins P1
ProvisionVariant ==
  /\ nNew < Len(NewIds)
  /\ nNew' = nNew + 1
  /\ LET dimensionLang == IF nNew = 0 THEN "Length" ELSE "Width"
         label == optionValue(dimensionLang, Str(<<"2000">>))
     IN /\ existingVariant(Str(<<"P1">>), label) = Null
        /\ variants' = [variants EXCEPT !["P1"] =
                          Append(@, Variant(NewIds[nNew + 1], label, dateNow))]
  /\ UNCHANGED <<dateNow, MAX_VARIANTS, sw>>
  /\ UNCHANGED <<gets, cw>>
  /\ UNCHANGED <<webhookVars, createVars>>

\* P1 with five temporary variants, created at two different times, two
\* more than the ceiling
InitOverlap ==
  /\ marker = [o \in OrderIds |-> FALSE]
  /\ level = [p \in InvItems \X {Locations[1], Locations[2]} |-> InitLevel]
  /\ hd = [i \in Inv |-> IdleFrame]
  /\ gh = [i \in Inv |-> IdleHistory]
  /\ ext = [it \in InvItems |-> 0]
  /\ nExt = 0
  /\ variants = [p \in {"P1", "P2"} |->
                   IF p = "P1" THEN CatalogP1(5, [k \in 1..5 |-> (k + 1) % 2])
                   ELSE CatalogP2]
  /\ dateNow = Clock0
  /\ MAX_VARIANTS = 3
  /\ sw = IdleSweep
  /\ cv = IdleCreate
  /\ Quiet

NextOverlap ==
  \/ \E k \in Sweepers :
        GetStart(k) \/ GetFetchPage(k) \/ GetCleanupProduct(k) \/ GetDelete(k)
  \/ ProvisionVariant
  \/ Tick

\* invocations of GET that overlap, while variants are provisioned
SpecOverlap == InitOverlap /\ [][NextOverlap]_vars

(* ------------------------- properties: helpers ------------------------- *)
Arrived(i) == hd[i].pc # "idle"

\* the delivery carries the digest of its own body under the shared secret
Authentic(i) == hd[i].shopifyHmac = HmacSha256Base64(WEBHOOK_SECRET, hd[i].rawBody)

\* the order a delivery is about (what its body denotes)
EventOf(i) == JSONparse(hd[i].rawBody)

DimensionNames == {"Individuelle Breite", "Individuelle Länge"}

IsDimensioned(item) ==
  /\ item.properties.isArray
  /\ \E n \in DOMAIN item.properties.elems :
        item.properties.elems[n].name \in DimensionNames

DimensionedIdx(order) ==
  {k \in DOMAIN order.line_items : IsDimensioned(order.line_items[k])}

RECURSIVE SumOver(_, _)
SumOver(S, f) ==
  IF S = {} THEN 0
  ELSE LET x == CHOOSE y \in S : TRUE IN f[x] + SumOver(S \ {x}, f)

\* processed invocations of order o: those that parsed a body of that order
InvocationsOf(o) == {i \in Inv : gh[i].parsed /\ EventOf(i).id = o}

\* total amount deducted so far for line item k of order o
TotalDeducted(o, k) ==
  SumOver(InvocationsOf(o), [i \in Inv |-> gh[i].adj[k].accepted])

Orders == {Order1001, Order1002, Order1003}

(* ------------------------------- claims -------------------------------- *)
\* (C1, state part) a late invocation has issued no adjustment and no per-item
\* call, and has answered 200 unless its marker read itself failed
C1_NoSecondDeduction ==
  \A i \in Inv : gh[i].late /\ Authentic(i) =>
     /\ \A k \in ItemIdx : gh[i].adj[k].n = 0
     /\ gh[i].touched = {}
     /\ hd[i].pc \in {"end", "isOrderProcessed", "done"}
     /\ hd[i].pc = "done" /\ gh[i].markRead # "errors" => hd[i].status = 200

\* (C1, step part) no step of a late invocation changes an inventory level
C1_StepsKeepLevels ==
  \A i \in Inv : gh[i].late /\ hd'[i] # hd[i] => level' = level

\* C1: sequential redelivery is idempotent.  An invocation that arrives when
\* the marker of its order is already set (an earlier invocation for that
\* order completed with 200 and wrote it) issues no inventory adjustment and
\* no other per-item call, none of its steps changes an inventory level, and
\* once its marker read has answered it responds 200.
C1_SequentialRedelivery == []C1_NoSecondDeduction /\ [][C1_StepsKeepLevels]_vars

C1_Witness ==
  \E i \in Inv : /\ gh[i].late /\ Authentic(i)
                 /\ hd[i].pc = "done" /\ hd[i].status = 200
                 /\ gh[i].markRead = "present"
                 /\ \E k \in ItemIdx : TotalDeducted(EventOf(i).id, k) > 0

\* C2 (as claimed): under any interleaving of deliveries of one order, the
\* total deducted for a dimensioned line item never exceeds its quantity.
C2_AtMostOnce ==
  \A o \in Orders : \A k \in DimensionedIdx(o) :
     TotalDeducted(o.id, k) <= o.line_items[k].quantity

\* invocations of order o whose marker read found the marker absent
MarkerAbsentReads(o) == {i \in InvocationsOf(o) : gh[i].markRead = "absent"}

\* C2 (amended): the total deducted for a dimensioned line item never exceeds
\* its quantity times the number of invocations of that order whose marker
\* read found the marker absent; an invocation deducts an item at most once.
C2_AtMostOncePerPassedCheck ==
  \A o \in Orders : \A k \in DimensionedIdx(o) :
     TotalDeducted(o.id, k) <=
        o.line_items[k].quantity * Cardinality(MarkerAbsentReads(o.id))

C2_Witness ==
  \E i, j \in Inv :
     /\ i # j /\ gh[i].parsed /\ gh[j].parsed
     /\ EventOf(i) = Order1001 /\ EventOf(j) = Order1001
     /\ ~gh[i].late /\ ~gh[j].late
     /\ hd[i].status = 200 /\ hd[j].status = 200
     /\ TotalDeducted("1001", 3) = 2 * Order1001.line_items[3].quantity

\* (C3, state part) a forged delivery is never parsed, makes no remote call
\* and is answered 401
C3_Rejected ==
  \A i \in Inv : Arrived(i) /\ ~Authentic(i) =>
     /\ ~gh[i].parsed
     /\ gh[i].calls = 0
     /\ hd[i].order = Null
     /\ hd[i].pc \in {"end", "done"}
     /\ hd[i].pc = "done" => hd[i].status = 401

\* (C3, step part) no step of a forged delivery changes a level or a marker
C3_StepsChangeNothing ==
  \A i \in Inv : Arrived(i) /\ ~Authentic(i) /\ hd'[i] # hd[i] =>
     level' = level /\ marker' = marker

\* C3: a delivery whose header is not the digest of its body (or is missing)
\* is answered 401; its body is never parsed, it makes no remote call, and
\* its steps leave every inventory level and every marker unchanged.
C3_SignatureRejection == []C3_Rejected /\ [][C3_StepsChangeNothing]_vars

C3_Witness ==
  \E i \in Inv : /\ hd[i].pc = "done" /\ hd[i].status = 401
                 /\ hd[i].shopifyHmac = NoHeader
                 /\ \E j \in Inv : /\ hd[j].pc = "done" /\ hd[j].status = 401
                                    /\ hd[j].shopifyHmac # NoHeader

\* invocation i has deducted line item k: its adjustment was accepted
ItemDeducted(i, k) ==
  gh[i].adj[k].accepted = EventOf(i).line_items[k].quantity

\* C4: within one invocation the marker write is issued only after every
\* dimensioned line item of the event has been deducted successfully; no
\* invocation is at or past the marker write with an item still undeducted.
C4_MarkerAfterAllDeductions ==
  \A i \in Inv :
     hd[i].pc = "markOrderAsProcessed" \/ gh[i].markWrite # "none" =>
        \A k \in DimensionedIdx(EventOf(i)) : ItemDeducted(i, k)

\* invocation i has finished with line item k without deducting it: its
\* resolution or its adjustment failed
ItemFailed(i, k) ==
  /\ k \in gh[i].touched
  /\ gh[i].adj[k].accepted = 0
  /\ hd[i].pc = "done" \/ hd[i].idx # k

\* C5: when resolution or deduction of the k-th dimensioned line item fails,
\* the handler responds 500, writes no marker and processes no item after k
\* (so that a redelivery finds no marker and starts again from the first).
C5_FailureAtItem ==
  \A i \in Inv : \A k \in ItemIdx : ItemFailed(i, k) =>
     /\ hd[i].pc = "done" /\ hd[i].status = 500
     /\ gh[i].markWrite = "none"
     /\ \A m \in gh[i].touched : m <= k

\* the marker write of invocation i failed
MarkWriteFailed(i) == gh[i].markWrite \in {"errors", "userErrors"}

\* (C6, state part) 500 after a failed marker write; a later delivery that
\* reads the marker absent is not short-circuited and issues every deduction
C6_Responds500 ==
  \A i \in Inv : MarkWriteFailed(i) =>
     /\ hd[i].pc = "done" /\ hd[i].status = 500
     /\ \A j \in Inv :
          gh[j].afterMarkFail /\ gh[j].markRead = "absent" =>
             /\ hd[j].pc = "done" /\ hd[j].status = 200 => gh[j].markWrite = "ok"
             /\ gh[j].markWrite # "none" =>
                  \A k \in DimensionedIdx(EventOf(j)) : gh[j].adj[k].n = 1

\* (C6, step part) the failing write changes no level, marker or deduction
C6_FailingWriteChangesNothing ==
  \A i \in Inv : ~MarkWriteFailed(i) /\ MarkWriteFailed(i)' =>
     /\ level' = level
     /\ marker' = marker
     /\ gh'[i].adj = gh[i].adj

\* C6: if every deduction of an event succeeded but the marker write fails
\* (GraphQL errors or userErrors), the handler responds 500, the failing step
\* changes neither a level nor a marker (deductions stay, nothing is marked),
\* and a delivery that then reads the marker absent is not short-circuited:
\* it goes on to deduct again.
C6_MarkerWriteFailure == []C6_Responds500 /\ [][C6_FailingWriteChangesNothing]_vars

C6_Witness ==
  \E i, j \in Inv :
     /\ gh[i].markWrite = "userErrors" /\ EventOf(i) = Order1001
     /\ ItemDeducted(i, 2) /\ ItemDeducted(i, 3)
     /\ gh[j].afterMarkFail /\ gh[j].markRead = "absent"
     /\ ItemDeducted(j, 2) /\ ItemDeducted(j, 3)
     /\ ~marker["1001"]
     /\ level[<<"I3", Locations[1]>>] = InitLevel - 2
     /\ level[<<"I2", Locations[1]>>] = InitLevel - 4

\* helpers: the legacy property and the annotation as the claim names them
LegacyNames == {"_starter_variant_id", "starter_variant_id"}

LegacyHits(item) ==
  {n \in DOMAIN item.properties.elems : item.properties.elems[n].name \in LegacyNames}

HasLegacy(item) == item.properties.isArray /\ LegacyHits(item) # {}

LegacyValue(item) ==
  item.properties.elems[CHOOSE n \in LegacyHits(item) :
                          \A m \in LegacyHits(item) : n <= m].value

WithoutGid(v) == Str(SelectSeq(v.chars, LAMBDA c : c # GidPrefix))

\* the starter_variant_id annotation of the purchased variant in the store
Annotation(item) ==
  LET v == item.variant_id.chars[1]
  IN IF v \in DOMAIN VariantStore THEN VariantStore[v].metafield ELSE Null

Resolved(i) == hd[i].pc \in {"product", "fallbackAdjust", "starterVariant", "adjust"}

InventoryItemOf(variantId) == VariantStore[variantId.chars[1]].inventoryItem

C8_NonDimensionedSkip ==
  \A i \in Inv : hd[i].order # Null =>
     /\ \A k \in DOMAIN hd[i].order.line_items :
          ~IsDimensioned(hd[i].order.line_items[k]) =>
             /\ k \notin gh[i].touched
             /\ gh[i].adj[k].n = 0
             /\ hd[i].idx # k
     /\ hd[i].pc = "markOrderAsProcessed" \/ gh[i].markWrite # "none" =>
          gh[i].touched = DimensionedIdx(hd[i].order)

C8_Witness ==
  \E i, j \in Inv :
     /\ EventOf(i) = Order1002 /\ gh[i].markWrite = "ok"
     /\ gh[i].touched = {2} /\ ItemDeducted(i, 2) /\ gh[i].calls = 6
     /\ EventOf(j) = Order1001 /\ gh[j].markWrite = "ok"
     /\ gh[j].touched = {2, 3} /\ gh[j].calls = 9

\* sum of the accepted deductions aimed at inventory item it
DeductedFrom(it) ==
  SumOver(Inv, [i \in Inv |->
     SumOver(ItemIdx, [k \in ItemIdx |->
        IF gh[i].adj[k].n > 0 /\ gh[i].adj[k].input.inventoryItemId = Str(<<it>>)
        THEN gh[i].adj[k].accepted ELSE 0])])

\* C9: every inventory mutation the processor issues is a relative change of
\* exactly -quantity of its line item at the looked-up location, so that at
\* every moment each level equals its initial value plus the adjustments of
\* other sources minus the quantities of the accepted deductions aimed at it,
\* whatever the interleaving (nothing is lost, order does not matter).
C9_RelativeDelta ==
  /\ \A i \in Inv : \A k \in ItemIdx : gh[i].adj[k].n > 0 =>
        /\ gh[i].adj[k].input.delta = 0 - EventOf(i).line_items[k].quantity
        /\ gh[i].adj[k].input.locationId = Locations[1]
  /\ \A it \in InvItems :
        /\ level[<<it, Locations[1]>>] = InitLevel + ext[it] - DeductedFrom(it)
        /\ level[<<it, Locations[2]>>] = InitLevel

C9_Witness ==
  \E i \in Inv :
     /\ EventOf(i) = Order1001 /\ gh[i].markWrite = "ok" /\ hd[i].status = 200
     /\ ItemDeducted(i, 2) /\ ItemDeducted(i, 3)
     /\ gh[i].adj[3].input.inventoryItemId = Str(<<"I2">>)
     /\ ext["I2"] = 3
     /\ level[<<"I2", Locations[1]>>] = InitLevel + 3 - 2

\* references to the inventory items of the store
InventoryItemRefs == {Str(<<it>>) : it \in InvItems}

\* C10: resolve before mutate.  Whenever an adjustment is about to be issued
\* or has been issued for a line item, exactly one inventory item has been
\* resolved for it and it is an existing inventory item, never null.
C10_ResolveBeforeMutate ==
  \A i \in Inv :
     /\ hd[i].pc \in {"adjust", "fallbackAdjust"} =>
          hd[i].inventoryItemId \in InventoryItemRefs
     /\ \A k \in ItemIdx : gh[i].adj[k].n > 0 =>
          /\ gh[i].adj[k].n = 1
          /\ gh[i].adj[k].input.inventoryItemId \in InventoryItemRefs

C10_Witness ==
  \E i, j \in Inv :
     /\ EventOf(i) = Order1003 /\ hd[i].pc = "done" /\ hd[i].status = 500
     /\ gh[i].touched = {1, 2} /\ gh[i].adj[1].n = 1 /\ gh[i].adj[2].n = 0
     /\ gh[i].calls = 7
     /\ EventOf(j) = Order1001 /\ gh[j].adj[2].n = 1 /\ hd[j].pc = "adjust"

\* C11: user errors abort the event.  Whenever an inventory adjustment for a
\* dimensioned line item answers with a non-empty userErrors list, on any
\* resolution path, the handler responds 500 and the marker is not written.
C11_UserErrorsAbort ==
  \A i \in Inv :
     gh[i].lastOut = "userErrors" /\ gh[i].lastCall \in {"adjust", "fallbackAdjust"} =>
        /\ hd[i].pc = "done" /\ hd[i].status = 500
        /\ gh[i].markWrite = "none"

\* the latest call of invocation i answered with GraphQL errors
TransportError(i) == gh[i].lastOut = "errors"

\* C12 (as claimed): a GraphQL error returned by any remote call made after
\* signature verification, the annotation lookup included, ends the
\* invocation with 500 and without a marker write.
C12_AnyTransportErrorAborts ==
  \A i \in Inv : TransportError(i) =>
     /\ hd[i].pc = "done" /\ hd[i].status = 500
     /\ gh[i].markWrite # "ok"

\* (C12, state part) an error of any call but the annotation lookup ends the
\* invocation with 500 and no marker; an error of the annotation lookup is
\* caught and the item is resolved as if the variant had no annotation
C12_Aborted ==
  \A i \in Inv : TransportError(i) =>
     IF gh[i].lastCall = "metafield"
     THEN /\ hd[i].pc \in {"product", "starterVariant"}
          /\ hd[i].metafieldValue = Null
          /\ hd[i].starterVariantId =
               (IF HasLegacy(CurItem(hd[i]))
                THEN WithoutGid(LegacyValue(CurItem(hd[i]))) ELSE Null)
     ELSE /\ hd[i].pc = "done" /\ hd[i].status = 500
          /\ gh[i].markWrite # "ok"
          /\ gh[i].lastCall # "markOrderAsProcessed" => gh[i].markWrite = "none"

\* (C12, step part) after such an error the invocation makes no further call
\* and no step of it changes a level or a marker
C12_NoFurtherCalls ==
  \A i \in Inv : TransportError(i) /\ gh[i].lastCall # "metafield" =>
     /\ gh'[i].calls = gh[i].calls
     /\ hd'[i] # hd[i] => level' = level /\ marker' = marker

\* C12 (amended): a GraphQL error returned by any remote call made after
\* signature verification other than the annotation lookup (marker read,
\* location lookup, product lookup, starter-variant lookup, adjustment, marker
\* write) ends the invocation with 500, with no further remote call and no
\* marker write; an error of the annotation lookup is caught, the line item
\* is resolved through the legacy property or the first variant, and the
\* invocation goes on.
C12_TransportErrorsAbort == []C12_Aborted /\ [][C12_NoFurtherCalls]_vars

C12_Witness ==
  \E i, j \in Inv :
     /\ EventOf(i) = Order1001 /\ TransportError(i)
     /\ gh[i].lastCall = "starterVariant" /\ hd[i].idx = 3
     /\ ItemDeducted(i, 2) /\ hd[i].pc = "done" /\ hd[i].status = 500
     /\ EventOf(j) = Order1001 /\ TransportError(j)
     /\ gh[j].lastCall = "metafield" /\ hd[j].idx = 3
     /\ hd[j].pc = "starterVariant" /\ hd[j].starterVariantId = Str(<<"23">>)

\* C13: a delivery that passes signature verification but whose body is not
\* valid JSON is rejected with status 400, with no remote call made.
C13_MalformedRejected ==
  \A i \in Inv :
     Authentic(i) /\ EventOf(i) = Malformed /\ hd[i].pc = "done" =>
        /\ hd[i].status = 400
        /\ gh[i].calls = 0

\* C14: binary accept/reject.  The handler responds 200 only if the marker
\* of the order was present at the idempotency check, or every dimensioned
\* line item of the event was deducted and the marker was written in this
\* invocation; never for a partially deducted event.
C14_BinaryAcceptReject ==
  \A i \in Inv : hd[i].pc = "done" /\ hd[i].status = 200 =>
     \/ gh[i].markRead = "present"
     \/ /\ gh[i].markWrite = "ok"
        /\ \A k \in DimensionedIdx(EventOf(i)) : ItemDeducted(i, k)

(* --------------------------- claims: the sweep ------------------------- *)
\* positions of the temporary variants in a product as the sweep received it
TempOf(node) ==
  {k \in DOMAIN node.variants : isTemporaryVariant(node.variants[k].title)}

\* those of them whose age at the eligibility test exceeds the buffer
EligibleOf(node, at) ==
  {k \in TempOf(node) : at - node.variants[k].createdAt > BUFFER_MINUTES}

Smaller(a, b) == IF a < b THEN a ELSE b

Ids(seq) == [j \in DOMAIN seq |-> seq[j].id]

\* a call of cleanupProduct has been made (and the frame still shows it)
Visited == sw.product # Null

\* (C15, state part) the variants selected for deletion and those deleted
C15_Selected ==
  Visited /\ Cardinality(TempOf(sw.product)) > MAX_VARIANTS =>
     LET node == sw.product
         eligible == {node.variants[k] : k \in EligibleOf(node, sw.at)}
         td == sw.toDelete
         chosen == {td[j] : j \in DOMAIN td}
     IN /\ Len(td) = Smaller(Cardinality(TempOf(node)) - MAX_VARIANTS,
                             Cardinality(eligible))
        /\ Cardinality(chosen) = Len(td)
        /\ chosen \subseteq eligible
        /\ \A v \in chosen : \A u \in eligible \ chosen : v.createdAt <= u.createdAt
        /\ \A j, m \in DOMAIN td : j < m => td[j].createdAt <= td[m].createdAt
        /\ ~sw.refused =>
             /\ sw.pc = "delete" => sw.deleted = SubSeq(Ids(td), 1, sw.di - 1)
             /\ sw.finished => sw.deleted = Ids(td)

\* (C15, step part) a step of the sweep removes from the store at most the
\* variant whose turn it is, and a completed call has removed what it chose
C15_DeletesInOrder ==
  \A p \in DOMAIN variants :
     variants'[p] # variants[p] =>
        /\ sw.pc = "delete"
        /\ variants'[p] =
             SelectSeq(variants[p], LAMBDA v : v.id # sw.toDelete[sw.di].id)

C16_OnlyOlderSelected ==
  Visited =>
     /\ \A j \in DOMAIN sw.toDelete : sw.at - sw.toDelete[j].createdAt > BUFFER_MINUTES
     /\ \A j \in DOMAIN sw.deleted :
          \E k \in DOMAIN sw.product.variants :
             /\ sw.product.variants[k].id = sw.deleted[j]
             /\ sw.at - sw.product.variants[k].createdAt > BUFFER_MINUTES

\* (C16, step part) a variant leaves the store only if its age at the
\* eligibility test of the running call exceeded the buffer
C16_YoungStay ==
  \A p \in DOMAIN variants : \A k \in DOMAIN variants[p] :
     (\A m \in DOMAIN variants'[p] : variants'[p][m].id # variants[p][k].id) =>
        sw.at - variants[p][k].createdAt > BUFFER_MINUTES

\* C16: buffer protection.  No variant whose age at the eligibility test
\* (time of the test minus creation time) is less than or equal to the buffer
\* is selected or deleted, however far the count exceeds the ceiling: with
\* ceiling 1 and 5 temporary variants all younger than the buffer, none.
C16_BufferProtection == []C16_OnlyOlderSelected /\ [][C16_YoungStay]_vars

C16_Witness ==
  /\ Visited /\ sw.product.id = "P1" /\ MAX_VARIANTS = 1
  /\ Cardinality(TempOf(sw.product)) = 5
  /\ \A k \in TempOf(sw.product) : sw.at - sw.product.variants[k].createdAt = BUFFER_MINUTES
  /\ sw.finished /\ sw.deleted = <<>> /\ sw.toDelete = <<>>
  /\ variants["P1"] = sw.product.variants

\* C17: in-flight protection.  The temporary variant of every dimensioned
\* line item of an order whose marker is absent is still in the store.
C17_InFlightProtected ==
  \A o \in Orders : ~marker[o.id] =>
     \A k \in DimensionedIdx(o) : Exists(o.line_items[k].variant_id.chars[1])

\* (C18, state part) nothing is selected for a product at or below the ceiling
C18_NothingSelected ==
  Visited /\ Cardinality(TempOf(sw.product)) <= MAX_VARIANTS =>
     /\ sw.toDelete = <<>>
     /\ sw.deleted = <<>>
     /\ sw.pc # "delete"
     /\ sw.finished

\* (C18, step part) the call for such a product changes no variant set, and
\* a delete is issued only for a product above the ceiling
C18_NoDelete ==
  /\ sw'.visits # sw.visits /\ Cardinality(TempOf(sw'.product)) <= MAX_VARIANTS =>
        variants' = variants
  /\ variants' # variants => Cardinality(TempOf(sw.product)) > MAX_VARIANTS

\* C18: at or below the ceiling.  For a product whose number of temporary
\* variants is less than or equal to the ceiling the sweep issues no delete
\* and leaves the variant set unchanged, whatever the ages of its variants.
C18_AtOrBelowCeiling == []C18_NothingSelected /\ [][C18_NoDelete]_vars

C18_Witness ==
  /\ MAX_VARIANTS = 3 /\ sw.visits["P1"] = 1
  /\ Visited /\ sw.product.id = "P2" /\ sw.finished
  /\ Cardinality(TempOf(sw.product)) = 3
  /\ EligibleOf(sw.product, sw.at) = TempOf(sw.product)
  /\ variants["P2"] = CatalogP2
  /\ Ids(variants["P1"]) = <<"21", "22", "23", "11", "12", "13">>
  /\ \A k \in 4..6 : dateNow - variants["P1"][k].createdAt > BUFFER_MINUTES

\* C19: single visit.  A sweep examines each product at most once, and the
\* cursor of the next page request is never reset to the beginning while
\* hasNextPage is true.
C19_SingleVisit ==
  /\ \A p \in DOMAIN sw.visits : sw.visits[p] <= 1
  /\ sw.resets = 0

(* ----------------------- claims: create-variant ------------------------ *)
\* the request carries the dimension (a non-empty, non-zero value)
Carries(x) == x # Null /\ x # Zero /\ x # Str(<<>>)

\* the text '<label> | <v> mm'
OneSegment(label, v) == <<label, " ", "|", " ", v.chars[1], " ", "mm">>

\* the text '<Länge> | <l> mm X <Breite> | <w> mm'
TwoSegments(l, w) == OneSegment("Länge", l) \o <<" ", "X", " ">> \o OneSegment("Breite", w)

\* the handler has computed an option label for the request
Labelled == cv.variantOptionValue # Null

\* C20 (as claimed): the label follows from the dimensions the request
\* carries: both a length and a width give the two-segment label, only one
\* dimension gives the one-segment label of that dimension.
C20_LabelByDimensions ==
  Labelled =>
     LET l == cv.body.lengthMm
         w == cv.body.widthMm
     IN /\ Carries(l) /\ Carries(w) => cv.variantOptionValue = Str(TwoSegments(l, w))
        /\ Carries(l) /\ ~Carries(w) => cv.variantOptionValue = Str(OneSegment("Länge", l))
        /\ ~Carries(l) /\ Carries(w) => cv.variantOptionValue = Str(OneSegment("Breite", w))

\* C20 (amended): the label follows from the mode of the request.  Mode
\* 'area', which must carry both a length and a width, gives the two-segment
\* label '<Länge> | <l> mm X <Breite> | <w> mm'; mode 'length' gives
\* '<Länge> | <l> mm' and mode 'width' gives '<Breite> | <w> mm', whether or
\* not the other dimension is carried as well; a request of another mode, or
\* without the dimension of its mode, gets no label; a variant that is
\* created is given that label.
C20_LabelByMode ==
  LET l == cv.body.lengthMm
      w == cv.body.widthMm
      mode == cv.body.mode
  IN /\ Labelled =>
          /\ mode \in {Str(<<"area">>), Str(<<"length">>), Str(<<"width">>)}
          /\ mode = Str(<<"area">>) =>
                /\ Carries(l) /\ Carries(w)
                /\ cv.variantOptionValue = Str(TwoSegments(l, w))
          /\ mode = Str(<<"length">>) =>
                /\ Carries(l)
                /\ cv.variantOptionValue = Str(OneSegment("Länge", l))
          /\ mode = Str(<<"width">>) =>
                /\ Carries(w)
                /\ cv.variantOptionValue = Str(OneSegment("Breite", w))
     /\ cv.variant # Null => cv.variant.title = cv.variantOptionValue
     /\ cv.pc = "done" /\ cv.status = 200 => Labelled

C20_Witness ==
  /\ cv.pc = "done" /\ cv.status = 200 /\ ~cv.isExisting
  /\ cv.body.mode = Str(<<"length">>)
  /\ Carries(cv.body.lengthMm) /\ Carries(cv.body.widthMm)
  /\ \E k \in DOMAIN variants["P1"] :
        /\ variants["P1"][k].id = NewVariantId
        /\ variants["P1"][k].title = Str(<<"Länge", " ", "|", " ", "1200", " ", "mm">>)

(* ------------------------ claims: marker, step order ------------------- *)
\* C21: marker monotonicity.  Once the inventory_processed marker of an order
\* is present it is present in every later state: no step removes or unsets
\* it, also not a second write by an overlapping delivery of the same order.
C21_MarkerMonotone ==
  [][\A o \in OrderIds : marker[o] => marker'[o]]_vars

C21_Witness ==
  \E i, j \in Inv :
     /\ i # j /\ EventOf(i) = Order1001 /\ EventOf(j) = Order1001
     /\ gh[i].markWrite = "ok" /\ gh[j].markWrite = "ok"
     /\ marker["1001"]

\* the starter-variant lookup of invocation i for its current line item has
\* answered, and the store has no such variant or no inventory item for it
StarterNotFound(i) ==
  gh[i].lastCall = "starterVariant" /\ gh[i].lastOut = "notFound"

\* (C22, state part) the invocation has ended with 500 at that line item,
\* has issued no adjustment for it, has touched no later item and has not
\* written the marker
C22_Aborted ==
  \A i \in Inv : StarterNotFound(i) =>
     /\ hd[i].pc = "done" /\ hd[i].status = 500
     /\ starterInventoryItemMissing(productVariant(VariantGid(hd[i].starterVariantId)))
     /\ gh[i].adj[hd[i].idx].n = 0
     /\ \A m \in gh[i].touched : m <= hd[i].idx
     /\ \A m \in ItemIdx : m > hd[i].idx => gh[i].adj[m].n = 0
     /\ gh[i].markWrite = "none"
     /\ ~marker[EventOf(i).id] \/ \E j \in Inv \ {i} : gh[j].markWrite = "ok"

\* (C22, step part) and it makes no further remote call
C22_NoFurtherCalls ==
  \A i \in Inv : StarterNotFound(i) => gh'[i] = gh[i]

\* C22: NotFound on paths (a)/(b).  When the starter-variant lookup of a line
\* item returns no variant or no inventory item, the handler issues no
\* inventory adjustment for that line item, processes no later line item,
\* does not write the marker, and responds 500.
C22_StarterNotFound == []C22_Aborted /\ [][C22_NoFurtherCalls]_vars

C22_Witness ==
  \E i \in Inv :
     /\ StarterNotFound(i) /\ EventOf(i) = Order1003 /\ hd[i].idx = 2
     /\ hd[i].starterVariantId = Str(<<"99">>)
     /\ ItemDeducted(i, 1)
     /\ hd[i].pc = "done" /\ hd[i].status = 500 /\ ~marker["1003"]

\* invocation i is working on a line item (between its first lookup and its
\* adjustment)
AtItem(i) ==
  hd[i].pc \in {"metafield", "product", "fallbackAdjust", "starterVariant", "adjust"}

\* C23: one deduction per item.  In any single invocation each dimensioned
\* line item causes at most one inventory-adjustment mutation (and any other
\* line item none), and exactly one when the invocation ends with the marker
\* written; the item an invocation is working on has not been adjusted yet,
\* so an item deducted through the first-variant fallback (c) is never at the
\* normal starter-variant step: that step is reached only with a starter id,
\* the fallback only without one.
C23_OneDeductionPerItem ==
  \A i \in Inv : gh[i].parsed =>
     /\ \A k \in ItemIdx :
          /\ gh[i].adj[k].n <= 1
          /\ k \notin DimensionedIdx(EventOf(i)) => gh[i].adj[k].n = 0
     /\ AtItem(i) => gh[i].adj[hd[i].idx].n = 0
     /\ hd[i].pc \in {"starterVariant", "adjust"} => ~Falsy(hd[i].starterVariantId)
     /\ hd[i].pc \in {"product", "fallbackAdjust"} => Falsy(hd[i].starterVariantId)
     /\ gh[i].markWrite = "ok" =>
          \A k \in DimensionedIdx(EventOf(i)) : gh[i].adj[k].n = 1

C23_Witness ==
  \E i, j \in Inv :
     /\ EventOf(i) = Order1002 /\ gh[i].markWrite = "ok" /\ gh[i].lastOut = "ok"
     /\ gh[i].adj[2].n = 1 /\ gh[i].adj[2].input.inventoryItemId = Str(<<"I1">>)
     /\ gh[i].adj[1].n = 0
     /\ level[<<"I1", Locations[1]>>] = InitLevel - 1
     /\ EventOf(j) = Order1001 /\ gh[j].markWrite = "ok"
     /\ gh[j].adj[2].n = 1 /\ gh[j].adj[3].n = 1

\* invocation i has got as far as step 4: its marker read found no marker
\* and the location lookup has been issued
ReachedStep4(i) ==
  gh[i].markRead = "absent" /\ hd[i].pc # "getPrimaryLocationId"

\* the location lookup of invocation i has answered with a location
Located(i) == hd[i].locationId # ""

\* C24: step order.  In every invocation the marker read precedes the
\* location lookup, which precedes every line-item resolution and deduction;
\* the location is looked up exactly once per invocation that reaches step 4,
\* all adjustments of the invocation use the location id that lookup
\* delivered, and an invocation that finds the marker present (or fails to
\* read it) performs no location lookup.
C24_StepOrder ==
  \A i \in Inv :
     /\ gh[i].locationLookups <= 1
     /\ gh[i].locationLookups = 1 => gh[i].markRead = "absent"
     /\ gh[i].markRead # "absent" =>
          /\ gh[i].locationLookups = 0
          /\ ~Located(i)
          /\ gh[i].touched = {}
          /\ \A k \in ItemIdx : gh[i].adj[k].n = 0
     /\ ReachedStep4(i) => gh[i].locationLookups = 1
     /\ \/ gh[i].touched # {}
        \/ AtItem(i)
        \/ hd[i].pc = "markOrderAsProcessed"
        \/ gh[i].markWrite # "none"
        => /\ gh[i].locationLookups = 1
           /\ Located(i)
     /\ Located(i) => hd[i].locationId = Locations[1]
     /\ \A k \in ItemIdx : gh[i].adj[k].n > 0 =>
          gh[i].adj[k].input.locationId = hd[i].locationId

C24_Witness ==
  \E i, j \in Inv :
     /\ EventOf(i) = Order1001 /\ gh[i].markWrite = "ok"
     /\ gh[i].locationLookups = 1 /\ gh[i].adj[2].n = 1 /\ gh[i].adj[3].n = 1
     /\ gh[i].adj[2].input.locationId = "L1" /\ gh[i].adj[3].input.locationId = "L1"
     /\ EventOf(j) = Order1001 /\ gh[j].markRead = "present"
     /\ hd[j].pc = "done" /\ hd[j].status = 200
     /\ gh[j].locationLookups = 0 /\ gh[j].calls = 1

\* (C25, state part) no call is issued twice, and a call for a line item is
\* issued only when every dimensioned item before it has been resolved and
\* has had its one adjustment
C25_InOrder ==
  \A i \in Inv :
     /\ ~gh[i].reissued
     /\ gh[i].calls = Cardinality(gh[i].issued)
     /\ \A k \in gh[i].touched :
          \A m \in DimensionedIdx(EventOf(i)) : m < k =>
             /\ gh[i].adj[m].n = 1
             /\ <<"metafield", m>> \in gh[i].issued
     /\ AtItem(i) => \A k \in gh[i].touched : k <= hd[i].idx
     /\ hd[i].pc = "done" /\ hd[i].status = 500 /\ gh[i].calls > 0 =>
          gh[i].lastOut \in {"errors", "userErrors", "notFound"}

\* (C25, step part) a step of an invocation issues at most one call, and an
\* invocation that has answered issues none
C25_OneCallPerStep ==
  \A i \in Inv :
     /\ gh'[i].calls \in {gh[i].calls, gh[i].calls + 1}
     /\ hd[i].pc = "done" => gh'[i] = gh[i]

\* C25: sequential, retry-free processing.  Within one invocation the calls
\* are issued one after the other, each awaited before the next (at most one
\* is outstanding); the resolution and the deduction of a line item are
\* complete before any call for a later line item is issued, so deductions
\* occur in line-item order; and no call is issued a second time, also not
\* after it failed: a failure ends the invocation with 500, except for the
\* annotation lookup, whose failure is followed by the next lookup.
C25_SequentialRetryFree == []C25_InOrder /\ [][C25_OneCallPerStep]_vars

C25_Witness ==
  \E i, j \in Inv :
     /\ EventOf(i) = Order1001 /\ gh[i].markWrite = "ok" /\ gh[i].calls = 9
     /\ gh[i].adj[3].input.inventoryItemId = Str(<<"I3">>)
     /\ EventOf(j) = Order1001 /\ hd[j].pc = "done" /\ hd[j].status = 500
     /\ gh[j].lastCall = "adjust" /\ gh[j].lastOut = "userErrors"
     /\ gh[j].touched = {2, 3} /\ gh[j].adj[2].n = 1 /\ gh[j].adj[3].n = 1
     /\ gh[j].calls = 8

\* what an operator can observe of the end of invocation i: the console
\* output of its last call and the status of its response
Observed(i) == <<consoleOutput(gh[i].lastCall, gh[i].lastOut), hd[i].status>>

\* invocation i failed at the marker write with every deduction made
FailedAtMarkerWrite(i) ==
  /\ MarkWriteFailed(i)
  /\ \A k \in DimensionedIdx(EventOf(i)) : ItemDeducted(i, k)

\* invocation j failed before or during the deductions
FailedBeforeMarkerWrite(j) ==
  /\ hd[j].pc = "done" /\ hd[j].status = 500
  /\ gh[j].calls > 0 /\ gh[j].markWrite = "none"

\* C26: distinct signal for the double-deduction window.  An invocation that
\* fails at the marker write after all deductions succeeded differs in what
\* it logs or responds from every invocation that fails before or during the
\* deductions, whether the marker write failed with GraphQL errors or with
\* userErrors.
C26_DistinctSignal ==
  \A i, j \in Inv :
     FailedAtMarkerWrite(i) /\ FailedBeforeMarkerWrite(j) => Observed(i) # Observed(j)

\* (C26, the part that holds) a marker write refused with userErrors is
\* logged with a line of its own
C26_UserErrorsDistinct ==
  \A i, j \in Inv :
     /\ FailedAtMarkerWrite(i) /\ gh[i].markWrite = "userErrors"
     /\ FailedBeforeMarkerWrite(j)
     => Observed(i) # Observed(j)

(* ----------------------- claims: the sweep, continued ------------------ *)
\* the dimension labels and the numeric values that occur in titles
DimensionLabels == {"Length", "Width", "Länge", "Breite"}
Numerals == {"250", "500", "800", "1200", "2000"}

\* the words of '<label> | <digits> mm'
IsSegment(words) ==
  /\ Len(words) = 7
  /\ words[1] \in DimensionLabels
  /\ SubSeq(words, 2, 4) = <<" ", "|", " ">>
  /\ words[5] \in Numerals
  /\ SubSeq(words, 6, 7) = <<" ", "mm">>

\* '<label> | <digits> mm', optionally followed once by ' X <label> | <digits> mm'
MatchesPattern(title) ==
  \/ IsSegment(title.chars)
  \/ /\ Len(title.chars) = 17
     /\ IsSegment(SubSeq(title.chars, 1, 7))
     /\ SubSeq(title.chars, 8, 10) = <<" ", "X", " ">>
     /\ IsSegment(SubSeq(title.chars, 11, 17))

\* C27: temporary classification.  The sweep counts a variant of the product
\* it examines as temporary if and only if its title is '<label> | <digits>
\* mm', optionally followed once by ' X <label> | <digits> mm'; a title that
\* only starts with a label and '|' and carries no numeric mm value is not
\* counted.
C27_Classification ==
  Visited =>
     \A k \in DOMAIN sw.product.variants :
        k \in TempOf(sw.product) <=> MatchesPattern(sw.product.variants[k].title)

\* the variants of product p the running sweep found, without those it has
\* deleted since
Remaining(p) == SelectSeq(sw.before[p], LAMBDA v : v.id \notin sw.removed)

\* (C28, state part) a GraphQL error of a page request or of a delete ends
\* the sweep with 500; the store is as the sweep found it but for the
\* variants whose delete was accepted, and a product the sweep has not
\* examined is as it was
C28_Stopped ==
  sw.pc # "idle" =>
     /\ sw.lastOut = "errors" => sw.pc = "done" /\ sw.status = 500
     /\ sw.pc = "done" /\ sw.status = 500 => sw.lastOut = "errors"
     /\ \A p \in DOMAIN variants :
          /\ variants[p] = Remaining(p)
          /\ sw.visits[p] = 0 => variants[p] = sw.before[p]

\* (C28, step part) a sweep that has answered does nothing more, and the
\* next sweep starts with a null cursor, before the first page, with nothing
\* examined
C28_Restart ==
  sw.pc = "done" =>
     /\ variants' = variants
     /\ \/ sw' = sw
        \/ /\ sw'.pc = "page" /\ sw'.cursor = Null /\ sw'.hasNextPage
           /\ sw'.pages = 0 /\ sw'.data = Null
           /\ \A p \in DOMAIN sw'.visits : sw'.visits[p] = 0

\* C28: sweep failure.  When a catalog page request or a delete call fails
\* with a GraphQL or transport error, the sweep stops at once and responds
\* 500; products not yet examined are untouched, the deletions already made
\* persist, and the next sweep starts again from the first page with a null
\* cursor: nothing of the failed sweep is carried over.
C28_SweepFailure == []C28_Stopped /\ [][C28_Restart]_vars

C28_Witness ==
  /\ sw.again /\ sw.prevStatus = 500 /\ MAX_VARIANTS = 1
  /\ "11" \notin {sw.before["P1"][k].id : k \in DOMAIN sw.before["P1"]}
  /\ Len(sw.before["P1"]) = 7
  /\ sw.before["P2"] = CatalogP2
  /\ Visited /\ sw.product.id = "P1" /\ sw.finished
  /\ sw.deleted = <<"13", "15">>
  /\ Ids(variants["P1"]) = <<"21", "22", "23", "12", "14">>
  /\ sw.visits["P2"] = 0 /\ variants["P2"] = CatalogP2

\* C29: delete user errors are checked.  When a variant-delete mutation of
\* the sweep answers with a non-empty userErrors list, the sweep fails with
\* 500: it does not go on and does not report success.
C29_DeleteUserErrorsChecked ==
  sw.lastCall = "productVariantDelete" /\ sw.lastOut = "userErrors" =>
     sw.pc = "done" /\ sw.status = 500

(* ------------------------- claims: the body ---------------------------- *)
\* the delivery of invocation i came in chunks and carries the digest of the
\* bytes that were sent
SignedChunked(i) ==
  /\ gh[i].chunks > 0
  /\ hd[i].shopifyHmac = HmacSha256Base64(WEBHOOK_SECRET, gh[i].sent)

\* C30: exact-bytes verification.  A body that carries the digest of its
\* bytes passes verification however the transport splits it into chunks,
\* also when a split falls inside a multi-byte character.
C30_ExactBytes ==
  \A i \in Inv : SignedChunked(i) /\ hd[i].pc = "done" =>
     gh[i].parsed /\ hd[i].status # 401

\* (C30, the part that holds) it passes when no split falls inside a
\* character, and then the handler has the text that was sent
C30_WholeCharacters ==
  \A i \in Inv : SignedChunked(i) /\ ~gh[i].cut =>
     /\ hd[i].incoming = <<>> => hd[i].rawBody = gh[i].sent
     /\ hd[i].pc = "done" => gh[i].parsed /\ hd[i].status # 401

(* ------------------- claims: what the sweep leaves alone --------------- *)
\* the variants the running sweep found whose title is not '<label> |
\* <digits> mm[ X <label> | <digits> mm]'
NotOfPattern(p) ==
  {sw.before[p][k] : k \in {m \in DOMAIN sw.before[p] :
                               ~MatchesPattern(sw.before[p][m].title)}}

\* C31: the sweep deletes temporary variants only.  Every variant a sweep
\* found whose title does not match the temporary pattern, the starter
\* variants among them, is still in the store, whatever the sweep has done.
C31_NonTemporaryKept ==
  sw.pc # "idle" =>
     \A p \in DOMAIN variants : \A v \in NotOfPattern(p) : Exists(v.id)

\* (C31, the part that holds) the starter variants, and every other variant
\* whose title starts with neither 'Length |' nor 'Width |', stay
C31_StartersKept ==
  sw.pc # "idle" =>
     \A p \in DOMAIN variants : \A k \in DOMAIN sw.before[p] :
        LET words == sw.before[p][k].title.chars
        IN Len(words) < 3 \/ SubSeq(words, 1, 3) \notin {<<"Length", " ", "|">>,
                                                          <<"Width", " ", "|">>}
             => Exists(sw.before[p][k].id)

\* number of variants in a list the sweep counts as temporary
TempCount(vs) == Cardinality({k \in DOMAIN vs : isTemporaryVariant(vs[k].title)})

\* C32: no eviction below the ceiling.  Whenever a variant of a product
\* leaves the store, under any interleaving of two overlapping sweeps, of
\* the clock and of variants being provisioned, the number of temporary
\* variants the product has after the deletion is at least the ceiling.
C32_NeverBelowCeiling ==
  [][\A p \in DOMAIN variants :
        Len(variants'[p]) < Len(variants[p]) => TempCount(variants'[p]) >= MAX_VARIANTS]_vars

\* both invocations took their page before either deleted; one has deleted
\* its two variants, the other was refused the same two; a variant was
\* provisioned meanwhile
C32_Witness ==
  /\ MAX_VARIANTS = 3 /\ nNew = 1
  /\ \A k \in Sweepers : gets[k].pc = "done" /\ gets[k].status = 200
  /\ \A k \in Sweepers : Ids(gets[k].data.edges[1].node.variants) =
                             <<"21", "22", "23", "11", "12", "13", "14", "15">>
  /\ Ids(variants["P1"]) = <<"21", "22", "23", "12", "14", "15", "51">>

\* the running sweep follows a sweep that was completed
AfterCompleted == sw.again /\ sw.prevStatus = 200

\* C33: sweep idempotence at a fixed time.  A sweep that runs on the state
\* a completed sweep has left, with no variant created in between and the
\* clock unchanged, deletes nothing: the variant sets of all products stay
\* as it found them.
C33_Idempotent ==
  AfterCompleted => sw.removed = {} /\ variants = sw.before

\* (C33, the part that holds) it deletes nothing when no delete of the
\* completed sweep was refused
C33_IdempotentUnrefused ==
  AfterCompleted /\ ~sw.prevRefused => sw.removed = {} /\ variants = sw.before

(* -------------------- claims: creator and classifier ------------------- *)
\* C34: creator and classifier agree.  The option label create-variant
\* gives to a variant it creates is classified as temporary by the sweep's
\* isTemporaryVariant, so the variant counts toward the ceiling.
C34_CreatedIsClassified ==
  cv.variant # Null => isTemporaryVariant(cv.variant.title)

\* (C34, the part that holds) the label is of the form '<label> | <digits>
\* mm', optionally followed once by ' X <label> | <digits> mm'
C34_CreatedIsOfPattern ==
  cv.variant # Null => MatchesPattern(cv.variant.title)

(* ----------------------- claims: the annotation ------------------------ *)
\* the request was answered 200 with a variant it has created
CreatedNew == cv.pc = "done" /\ cv.status = 200 /\ ~cv.isExisting

\* the variant of the request as the store has it
StoredNew ==
  LET vs == variants[cv.body.productId.chars[1]]
  IN vs[CHOOSE k \in DOMAIN vs : vs[k].id = cv.variant.id]

\* the starter variant ids the request may name: the selected variant,
\* without its gid prefix, when it is given and in the store, and the first
\* variant of the product
StarterCandidates ==
  LET selected == cv.body.selectedVariantId
  IN {Str(<<variants[cv.body.productId.chars[1]][1].id>>)}
       \cup (IF selected # Null /\ variantFound(StripPrefix(selected))
             THEN {StripPrefix(selected)} ELSE {})

\* C35 (as claimed): the annotation is always present.  Every variant for
\* which create-variant answered 200 as newly created carries a
\* starter_variant_id annotation naming the selected variant, or the first
\* variant of the product when none was selected or it was not found.
C35_AlwaysAnnotated ==
  CreatedNew =>
     StoredNew.metafield # Null /\ StoredNew.metafield \in StarterCandidates

\* C35 (amended): a variant for which create-variant answered 200 as newly
\* created carries the annotation, naming the selected variant without its
\* gid prefix or else the first variant of the product, if the store
\* accepted the annotation write; if the write came back with errors or user
\* errors the request is answered 200 all the same and the variant carries
\* no annotation.  A request that selects no variant names the first one.
C35_AnnotatedIfAccepted ==
  CreatedNew =>
     /\ cv.metafieldOut = "ok" =>
           /\ StoredNew.metafield \in StarterCandidates
           /\ cv.body.selectedVariantId = Null =>
                 StoredNew.metafield = Str(<<variants["P1"][1].id>>)
     /\ cv.metafieldOut # "ok" =>
           cv.metafieldOut \in {"errors", "userErrors"} /\ StoredNew.metafield = Null

C35_Witness ==
  /\ CreatedNew /\ cv.metafieldOut = "ok"
  /\ cv.body.selectedVariantId = Str(<<GidPrefix, "23">>)
  /\ StoredNew.id = NewVariantId /\ StoredNew.metafield = Str(<<"23">>)

(* ------------------- claims: resolution and eviction ------------------- *)
\* the variant that line item `item` names was created with a starter
\* annotation (Init gives the store's variants their annotations)
CreatedAnnotated(item) ==
  /\ item.variant_id.chars[1] \in DOMAIN VariantStore
  /\ VariantStore[item.variant_id.chars[1]].metafield # Null

\* invocation i has just been answered the annotation lookup for its
\* current line item, without an error
LookedUp(i) ==
  /\ hd[i].pc \in {"product", "starterVariant"}
  /\ gh[i].lastCall = "metafield" /\ gh[i].lastOut = "ok"

\* C36: resolution is independent of eviction.  For a line item whose
\* temporary variant was created with an annotation naming starter variant
\* S, the processor whose annotation lookup is answered resolves S, and so
\* deducts from the inventory item of S and from no other, whether or not a
\* sweep has deleted the temporary variant before the event is processed.
C36_ResolvesAnnotatedStarter ==
  \A i \in Inv : LookedUp(i) /\ CreatedAnnotated(CurItem(hd[i])) =>
     hd[i].starterVariantId = VariantStore[CurItem(hd[i]).variant_id.chars[1]].metafield

\* (C36, the part that holds) it resolves S as long as no sweep has deleted
\* the temporary variant
C36_WhileNotEvicted ==
  \A i \in Inv :
     /\ LookedUp(i) /\ CreatedAnnotated(CurItem(hd[i]))
     /\ CurItem(hd[i]).variant_id.chars[1] \notin sw.removed
     => hd[i].starterVariantId =
           VariantStore[CurItem(hd[i]).variant_id.chars[1]].metafield

(* ---------------------- claims: frame of the processor ----------------- *)
\* the inventory items of the temporary variants line items are bought as
TemporaryItems == {"I11", "I12"}

\* (C37) what a step of invocation i may change
C37_StepOf(i) ==
  /\ variants' = variants
  /\ \A o \in OrderIds : marker'[o] # marker[o] => gh[i].parsed /\ o = EventOf(i).id
  /\ \A key \in DOMAIN level : level'[key] # level[key] =>
        /\ hd[i].idx \in DimensionedIdx(EventOf(i))
        /\ Str(<<key[1]>>) = hd[i].inventoryItemId
        /\ key[2] = hd[i].locationId /\ Located(i)
        /\ key[1] \notin TemporaryItems
        /\ level'[key] = level[key] - CurItem(hd[i]).quantity

\* C37: frame of the processor.  A step of an invocation of the order-paid
\* handler changes nothing but the available level, at the looked-up
\* location, of the inventory item it has resolved for the dimensioned line
\* item it is at, and the marker of its own order; it creates and deletes no
\* variant, leaves the levels of the purchased temporary variants alone and
\* writes no other order's marker.
C37_ProcessorFrame ==
  [][\A i \in Inv : hd'[i] # hd[i] => C37_StepOf(i)]_vars

C37_Witness ==
  \E i \in Inv :
     /\ hd[i].pc = "done" /\ hd[i].status = 200 /\ EventOf(i) = Order1001
     /\ marker = [o \in OrderIds |-> o = "1001"]
     /\ level = [key \in InvItems \X {Locations[1], Locations[2]} |->
                   IF key = <<"I3", Locations[1]>> THEN InitLevel - 1
                   ELSE IF key = <<"I2", Locations[1]>> THEN InitLevel - 2
                   ELSE InitLevel]

(* ------------------------ claims: label uniqueness --------------------- *)
\* the variants of P1 that create-variant requests have created
CreatedIds == {NewVariantId, OtherVariantId}

\* frame c has answered with a variant that was already there
ReturnedExisting(c) ==
  c.isExisting =>
     /\ c.pc = "done" /\ c.status = 200
     /\ c.variant = Null /\ c.metafieldOut = "none"
     /\ \E k \in DOMAIN variants["P1"] :
           /\ Str(<<variants["P1"][k].id>>) = c.variantId
           /\ variants["P1"][k].title = c.variantOptionValue

\* C38: label uniqueness on creation.  Under any interleaving of
\* create-variant requests for the same product and dimension, a variant
\* that a request has created is the only variant of the product with its
\* option label; a request that finds the label present answers with the
\* existing variant and isExisting and issues no create, annotation or
\* inventory call.
C38_LabelUnique ==
  /\ \A k, m \in DOMAIN variants["P1"] :
        k # m /\ variants["P1"][k].id \in CreatedIds =>
           variants["P1"][k].title # variants["P1"][m].title
  /\ ReturnedExisting(cv) /\ ReturnedExisting(cw)

\* (C38, the part that holds) a request that finds the label present
\* answers with the existing variant and creates nothing
C38_ExistingReturned == ReturnedExisting(cv) /\ ReturnedExisting(cw)

(* ------------------------ claims: the response ------------------------- *)
\* invocation i has sent its response
Responded(i) == hd[i].pc = "done"

\* (C39, liveness) an invocation that has arrived sends a response
C39_Responds == \A i \in Inv : Arrived(i) ~> Responded(i)

\* (C39, state part) a status is sent with the response only, and it is
\* 200, 401 or 500
C39_Status ==
  \A i \in Inv :
     /\ Responded(i) => hd[i].status \in {200, 401, 500}
     /\ ~Responded(i) => hd[i].status = 0

\* (C39, step part) after its response an invocation sends nothing more and
\* issues no remote call
C39_Once ==
  \A i \in Inv : Responded(i) => hd'[i] = hd[i] /\ gh'[i] = gh[i]

\* C39: exactly one response.  Provided every remote call returns, every
\* invocation of the order-paid handler eventually sends a response, with
\* status 200, 401 or 500; it sends one only and performs no remote call
\* after it.
C39_ExactlyOneResponse == C39_Responds /\ []C39_Status /\ [][C39_Once]_vars

\* all invocations have answered: a rejected one, a failed one, a processed
\* one
C39_Witness ==
  /\ \A i \in Pair : Responded(i)
  /\ \E i, j \in Pair : hd[i].status = 200 /\ gh[i].calls > 2 /\ hd[j].status = 500

====
